---- MODULE Spec2Model ----
(***************************************************************************)
(* A model of the iso-price money arithmetic core.                         *)
(*                                                                         *)
(* The library is a set of pure functions.  Each is an operator here, and  *)
(* each public entry point is an action that draws its inputs from small   *)
(* sets and records the call in (op, arg, ret).  A caller may pass the     *)
(* result of one call on to the next; held is what it keeps meanwhile.     *)
(*                                                                         *)
(* Conventions                                                             *)
(*  - a javascript string is a sequence of one-character strings, except   *)
(*    that a three-letter currency code is one element of the sequence;    *)
(*  - an IsoPrice input is a record tagged with its javascript typeof:     *)
(*    [type |-> "object", amount, currency, exponent] for a shape and      *)
(*    [type |-> "string", chars] for the words form;                       *)
(*  - a call that throws is the record Err(kind), a call that returns is   *)
(*    Ok(value);                                                           *)
(*  - bigint "/" and "%" truncate toward zero (BigIntDiv, BigIntRem);      *)
(*  - amounts are mathematical integers, as bigint is; the inputs are kept *)
(*    small enough that no intermediate value leaves TLC's 32-bit range.   *)
(***************************************************************************)
EXTENDS FiniteSets, Integers, Sequences, TLC

VARIABLES op, arg, ret, held

vars == <<op, arg, ret, held>>

-----------------------------------------------------------------------------
(* Bounds of the model                                                     *)

MaxAmount == 12
MaxParts == 4
MaxRatioLen == 3
MaxRatio == 2
MaxShift == 6

-----------------------------------------------------------------------------
(* Results and javascript values                                           *)

Undefined == "undefined"

Ok(v) == [ok |-> TRUE, error |-> "", value |-> v]

Err(kind) == [ok |-> FALSE, error |-> kind, value |-> <<>>]

Shape(a, c, e) == [type |-> "object", amount |-> a, currency |-> c, exponent |-> e]

Str(s) == [type |-> "string", chars |-> s]

Abs(n) == IF n < 0 THEN -n ELSE n

BigIntDiv(a, b) == IF (a >= 0) = (b > 0) THEN Abs(a) \div Abs(b) ELSE -(Abs(a) \div Abs(b))

BigIntRem(a, b) == a - b * BigIntDiv(a, b)

RECURSIVE Pow10(_)
Pow10(n) == IF n = 0 THEN 1 ELSE 10 * Pow10(n - 1)

RECURSIVE SumSeq(_)
SumSeq(s) == IF s = <<>> THEN 0 ELSE Head(s) + SumSeq(Tail(s))

\* Array.from({ length: n }, (_, i) => i)
Range0(n) == [i \in 1..n |-> i - 1]

-----------------------------------------------------------------------------
(* Scale model and currency registry                                       *)

WHOLE == "whole.x10^0"
CENTI == "centi.x10^-2"
MILLI == "milli.x10^-3"
MICRO == "micro.x10^-6"
NANO == "nano.x10^-9"
PICO == "pico.x10^-12"

IsoPriceExponent == {WHOLE, CENTI, MILLI, MICRO, NANO, PICO}

\* exponent.match(/\^(-?\d+)$/), parseInt; no match defaults to centi. The token
\* is not compared with the members of IsoPriceExponent: deci.x10^-1 parses to -1
getExponentValue(exponent) ==
    CASE exponent = WHOLE -> 0
      [] exponent = "deci.x10^-1" -> -1
      [] exponent = CENTI -> -2
      [] exponent = MILLI -> -3
      [] exponent = MICRO -> -6
      [] exponent = NANO -> -9
      [] exponent = PICO -> -12
      [] OTHER -> -2

WHOLE_UNIT_CURRENCIES == {"JPY", "KRW", "VND", "IDR", "CLP", "PYG", "UGX"}

MILLI_UNIT_CURRENCIES == {"BHD", "KWD", "OMR", "TND"}

\* mutant: every currency is taken to have two decimal places
getIsoPriceExponentByCurrency_AlwaysCenti(currency) == CENTI

getIsoPriceExponentByCurrency(currency) ==
    IF currency \in WHOLE_UNIT_CURRENCIES THEN WHOLE
    ELSE IF currency \in MILLI_UNIT_CURRENCIES THEN MILLI
    ELSE CENTI

-----------------------------------------------------------------------------
(* String helpers                                                          *)

DigitChars == <<"0", "1", "2", "3", "4", "5", "6", "7", "8", "9">>

IsDigit(c) == \E d \in 1..10 : DigitChars[d] = c

DigitValue(c) == (CHOOSE d \in 1..10 : DigitChars[d] = c) - 1

\* bigint.toString() of a non-negative value
RECURSIVE toString(_)
toString(n) ==
    IF n < 10 THEN <<DigitChars[n + 1]>>
    ELSE Append(toString(n \div 10), DigitChars[(n % 10) + 1])

\* BigInt(digits) of an unsigned digit string; BigInt("") is 0n
RECURSIVE DigitsToInt(_)
DigitsToInt(s) ==
    IF s = <<>> THEN 0
    ELSE 10 * DigitsToInt(SubSeq(s, 1, Len(s) - 1)) + DigitValue(s[Len(s)])

RECURSIVE padStart(_, _, _)
padStart(s, n, c) == IF Len(s) >= n THEN s ELSE padStart(<<c>> \o s, n, c)

RECURSIVE padEnd(_, _, _)
padEnd(s, n, c) == IF Len(s) >= n THEN s ELSE padEnd(Append(s, c), n, c)

\* s.replace(/0+$/, '')
RECURSIVE TrimZerosAtEnd(_)
TrimZerosAtEnd(s) ==
    IF s # <<>> /\ s[Len(s)] = "0" THEN TrimZerosAtEnd(SubSeq(s, 1, Len(s) - 1)) ELSE s

\* s.replace(/[_,]/g, '')
RECURSIVE StripSeparators(_)
StripSeparators(s) ==
    IF s = <<>> THEN <<>>
    ELSE IF Head(s) \in {"_", ","} THEN StripSeparators(Tail(s))
    ELSE <<Head(s)>> \o StripSeparators(Tail(s))

\* index of the first c in s, 0 when there is none
RECURSIVE IndexOf(_, _)
IndexOf(s, c) ==
    IF s = <<>> THEN 0
    ELSE IF Head(s) = c THEN 1
    ELSE LET r == IndexOf(Tail(s), c) IN IF r = 0 THEN 0 ELSE r + 1

\* digits.replace(/\B(?=(\d{3})+(?!\d))/g, '_')
RECURSIVE GroupThousands(_)
GroupThousands(s) ==
    IF Len(s) <= 3 THEN s
    ELSE GroupThousands(SubSeq(s, 1, Len(s) - 3)) \o <<"_">> \o SubSeq(s, Len(s) - 2, Len(s))

\* s.split(c)
RECURSIVE Split(_, _)
Split(s, c) ==
    LET i == IndexOf(s, c)
    IN IF i = 0 THEN <<s>>
       ELSE <<SubSeq(s, 1, i - 1)>> \o Split(SubSeq(s, i + 1, Len(s)), c)

AllDigits(s) == \A i \in 1..Len(s) : IsDigit(s[i])

-----------------------------------------------------------------------------
(* Formatter: shape -> words                                               *)

CurrencyCodes == {"USD", "EUR", "JPY", "BHD", "CAD", "GBP", "CHF"}

\* Math.abs(parseInt(match[1])) of the exponent token; 2 without a match
getDecimalPlaces(exponent) == Abs(getExponentValue(exponent))

RECURSIVE formatDecimalPart(_)
formatDecimalPart(decPart) ==
    IF Len(decPart) > 3
    THEN SubSeq(decPart, 1, 3) \o
         (IF Len(decPart) > 6 THEN <<"_">> \o formatDecimalPart(SubSeq(decPart, 4, Len(decPart)))
          ELSE <<"_">> \o SubSeq(decPart, 4, Len(decPart)))
    ELSE decPart

formatAmount(amount, exponent) ==
    LET decimalPlaces == getDecimalPlaces(exponent)
        isNegative == amount < 0
        absAmount == IF isNegative THEN -amount ELSE amount
        sign == IF isNegative THEN <<"-">> ELSE <<>>
        \* the centi branch, from the trimmed decimal part on
        Centi(formattedInt, trimmedDec) ==
            IF Len(trimmedDec) = 0 THEN sign \o formattedInt \o <<".", "0", "0">>
            ELSE sign \o formattedInt \o <<".">> \o padEnd(trimmedDec, 2, "0")
        \* the branches with decimals, from the padded digits on
        WithDecimals(amountStr) ==
            LET intPart == SubSeq(amountStr, 1, Len(amountStr) - decimalPlaces)
                decPart == SubSeq(amountStr, Len(amountStr) - decimalPlaces + 1, Len(amountStr))
            IN IF decimalPlaces = 2 THEN Centi(GroupThousands(intPart), TrimZerosAtEnd(decPart))
               ELSE sign \o GroupThousands(intPart) \o <<".">> \o formatDecimalPart(decPart)
    IN IF decimalPlaces = 0 THEN sign \o GroupThousands(toString(absAmount))
       ELSE WithDecimals(padStart(toString(absAmount), decimalPlaces + 1, "0"))

-----------------------------------------------------------------------------
(* Guards and parser: words -> shape                                       *)

\* /^[A-Z]{3} -?[\d,_.]+$/
isWordsLikeFormat(s) ==
    /\ Len(s) >= 3
    /\ s[1] \in CurrencyCodes
    /\ s[2] = " "
    /\ LET rest == IF s[3] = "-" THEN SubSeq(s, 4, Len(s)) ELSE SubSeq(s, 3, Len(s))
       IN /\ Len(rest) >= 1
          /\ \A i \in 1..Len(rest) : IsDigit(rest[i]) \/ rest[i] \in {",", "_", "."}

\* (\d+|\d{1,3}(_\d{3})*)
IsGroupedInt(seg) ==
    \/ Len(seg) >= 1 /\ AllDigits(seg)
    \/ LET g == Split(seg, "_")
       IN /\ Len(g[1]) \in 1..3 /\ AllDigits(g[1])
          /\ \A i \in 2..Len(g) : Len(g[i]) = 3 /\ AllDigits(g[i])

\* (\d+(_\d{3})*)
IsGroupedDec(seg) ==
    LET g == Split(seg, "_")
    IN /\ Len(g[1]) >= 1 /\ AllDigits(g[1])
       /\ \A i \in 2..Len(g) : Len(g[i]) = 3 /\ AllDigits(g[i])

\* /^[A-Z]{3} -?(\d+|\d{1,3}(_\d{3})*)(\.(\d+(_\d{3})*))?$/
isIsoPriceWords(s) ==
    /\ Len(s) >= 3
    /\ s[1] \in CurrencyCodes
    /\ s[2] = " "
    /\ LET rest == IF s[3] = "-" THEN SubSeq(s, 4, Len(s)) ELSE SubSeq(s, 3, Len(s))
           p == Split(rest, ".")
       IN /\ Len(p) \in 1..2
          /\ IsGroupedInt(p[1])
          /\ Len(p) = 2 => IsGroupedDec(p[2])

\* BigInt(string): an optional minus and digits; anything else is a SyntaxError
BigIntOf(s) ==
    LET neg == s # <<>> /\ Head(s) = "-"
        digits == IF neg THEN Tail(s) ELSE s
    IN IF ~AllDigits(digits) \/ (neg /\ digits = <<>>) THEN Err("SyntaxError")
       ELSE Ok(IF neg THEN -DigitsToInt(digits) ELSE DigitsToInt(digits))

\* the smallest exponent of exponentMap with at least n decimal places, else pico
SmallestExponentThatFits(n) ==
    IF n <= 0 THEN WHOLE
    ELSE IF n <= 2 THEN CENTI
    ELSE IF n <= 3 THEN MILLI
    ELSE IF n <= 6 THEN MICRO
    ELSE IF n <= 9 THEN NANO
    ELSE PICO

\* mutant: the decimal part is always cut to the currency's decimal places
parseAmountToMinorUnits_Truncating(amountStr, exponent) ==
    LET decimalPlaces == Abs(getExponentValue(exponent))
        Build(n) == IF n.ok THEN Ok([amount |-> n.value, exponent |-> exponent]) ELSE n
        FromParts(parts) ==
            LET decPart == IF Len(parts) >= 2 THEN parts[2] ELSE <<>>
            IN Build(BigIntOf(parts[1] \o SubSeq(padEnd(decPart, decimalPlaces, "0"), 1, decimalPlaces)))
    IN FromParts(Split(StripSeparators(amountStr), "."))

parseAmountToMinorUnits(amountStr, exponent) ==
    LET decimalPlaces == Abs(getExponentValue(exponent))
        \* { amount: BigInt(...), exponent }, or the SyntaxError of BigInt
        Build(n, e) == IF n.ok THEN Ok([amount |-> n.value, exponent |-> e]) ELSE n
        \* from const [intPart, decPart = ''] = cleaned.split('.') on
        FromParts(parts) ==
            LET intPart == parts[1]
                decPart == IF Len(parts) >= 2 THEN parts[2] ELSE <<>>
                paddedDecimal == padEnd(decPart, decimalPlaces, "0")
                truncatedDecimal == SubSeq(paddedDecimal, 1, decimalPlaces)
                newExponent == SmallestExponentThatFits(Len(decPart))
                newDecPlaces == Abs(getExponentValue(newExponent))
                fullDecimal == padEnd(decPart, newDecPlaces, "0")
            IN IF Len(decPart) > decimalPlaces
               THEN Build(BigIntOf(intPart \o fullDecimal), newExponent)
               ELSE Build(BigIntOf(intPart \o truncatedDecimal), exponent)
    IN FromParts(Split(StripSeparators(amountStr), "."))

\* value.match(/^([A-Z]{3}) (.+)$/)
parseWordsFormat(s) ==
    IF Len(s) >= 3 /\ s[1] \in CurrencyCodes /\ s[2] = " "
    THEN Ok([currency |-> s[1], amountStr |-> SubSeq(s, 3, Len(s))])
    ELSE Err("InvalidFormat")

\* options?: { currency?: TCurrency } when the caller gives none
NoOptions == [currency |-> Undefined]

\* Object.entries(SYMBOL_TO_CODE), in the order the table is written.  A symbol is
\* one element of a string; a glyph outside ascii is named by its code point
\* (U+20AC is the euro sign, U+00A3 the pound sign, U+00A5 the yen sign, ...)
SYMBOL_TO_CODE ==
    <<[symbol |-> "$", code |-> "USD"],
      [symbol |-> "U+20AC", code |-> "EUR"],
      [symbol |-> "U+00A3", code |-> "GBP"],
      [symbol |-> "U+00A5", code |-> "JPY"],
      [symbol |-> "U+20B9", code |-> "INR"],
      [symbol |-> "U+20BD", code |-> "RUB"],
      [symbol |-> "U+20A9", code |-> "KRW"],
      [symbol |-> "U+20AA", code |-> "ILS"],
      [symbol |-> "U+0E3F", code |-> "THB"],
      [symbol |-> "U+20AB", code |-> "VND"],
      [symbol |-> "kr", code |-> "SEK"],
      [symbol |-> "R", code |-> "ZAR"],
      [symbol |-> "zU+0142", code |-> "PLN"],
      [symbol |-> "KU+010D", code |-> "CZK"],
      [symbol |-> "CHF", code |-> "CHF"]>>

\* the first entry of SYMBOL_TO_CODE among the entries numbered in matches, else 0
FirstSymbol(matches) ==
    IF matches = {} THEN 0 ELSE CHOOSE k \in matches : \A j \in matches : k <= j

\* value.startsWith(symbol)
StartsWith(value, symbol) == Len(value) >= 1 /\ value[1] = symbol

\* value.endsWith(symbol) || value.endsWith(` ${symbol}`)
EndsWith(value, symbol) == Len(value) >= 1 /\ value[Len(value)] = symbol

\* a string is symbol-form if it begins or ends with a known currency glyph and
\* is not code-form
isIsoPriceHuman(s) ==
    /\ \E k \in 1..Len(SYMBOL_TO_CODE) :
          StartsWith(s, SYMBOL_TO_CODE[k].symbol) \/ EndsWith(s, SYMBOL_TO_CODE[k].symbol)
    /\ ~isIsoPriceWords(s)
    /\ ~isWordsLikeFormat(s)

\* s.replace(/\s*$/, '')
RECURSIVE TrimSpacesAtEnd(_)
TrimSpacesAtEnd(s) ==
    IF s # <<>> /\ s[Len(s)] = " " THEN TrimSpacesAtEnd(SubSeq(s, 1, Len(s) - 1)) ELSE s

parseHumanFormat(value, options) ==
    LET entries == 1..Len(SYMBOL_TO_CODE)
        \* options?.currency ?? code
        Currency(k) == IF options.currency = Undefined THEN SYMBOL_TO_CODE[k].code
                       ELSE options.currency
        FromMatches(prefix, suffix) ==
            IF prefix # 0
            THEN Ok([currency |-> Currency(prefix), amountStr |-> Tail(value)])
            ELSE IF suffix # 0
            THEN Ok([currency |-> Currency(suffix),
                     amountStr |-> TrimSpacesAtEnd(SubSeq(value, 1, Len(value) - 1))])
            ELSE Err("InvalidFormat")
    IN FromMatches(FirstSymbol({k \in entries : StartsWith(value, SYMBOL_TO_CODE[k].symbol)}),
                   FirstSymbol({k \in entries : EndsWith(value, SYMBOL_TO_CODE[k].symbol)}))

asIsoPriceShape(input, options) ==
    LET \* from the parsed amount on
        FromParsed(currency, parsed) ==
            IF ~parsed.ok THEN parsed
            ELSE Ok(Shape(parsed.value.amount, currency, parsed.value.exponent))
        \* from the match of parseWordsFormat or parseHumanFormat on
        FromWords(w) ==
            IF ~w.ok THEN w
            ELSE FromParsed(w.value.currency,
                            parseAmountToMinorUnits(
                                w.value.amountStr,
                                getIsoPriceExponentByCurrency(w.value.currency)))
    IN IF input.type = "object"
       THEN Ok(Shape(input.amount, input.currency,
                     IF input.exponent = Undefined
                     THEN getIsoPriceExponentByCurrency(input.currency)
                     ELSE input.exponent))
       ELSE IF isIsoPriceWords(input.chars) \/ isWordsLikeFormat(input.chars)
       THEN FromWords(parseWordsFormat(input.chars))
       ELSE IF isIsoPriceHuman(input.chars)
       THEN FromWords(parseHumanFormat(input.chars, options))
       ELSE Err("InvalidFormat")

\* strict words are parsed without the options, anything else with them; both
\* branches convert to a shape and format it
asIsoPriceWords(input, options) ==
    LET FromShape(s) ==
            IF ~s.ok THEN s
            ELSE Ok(Str(<<s.value.currency, " ">> \o formatAmount(s.value.amount, s.value.exponent)))
    IN FromShape(asIsoPriceShape(input,
                                 IF input.type = "string" /\ isIsoPriceWords(input.chars)
                                 THEN NoOptions ELSE options))

\* currencies whose symbol is theirs alone: [code, symbol]
UNIQUE_SYMBOL_CURRENCIES == <<[code |-> "EUR", symbol |-> "U+20AC"]>>

\* UNIQUE_SYMBOL_CURRENCIES[code], undefined without an entry
UniqueSymbolOf(code) ==
    LET entries == {k \in 1..Len(UNIQUE_SYMBOL_CURRENCIES) : UNIQUE_SYMBOL_CURRENCIES[k].code = code}
    IN IF entries = {} THEN Undefined
       ELSE UNIQUE_SYMBOL_CURRENCIES[CHOOSE k \in entries : TRUE].symbol

\* the first symbol of SYMBOL_TO_CODE the value starts or ends with, else null
detectSymbol(value) ==
    LET k == FirstSymbol({j \in 1..Len(SYMBOL_TO_CODE) :
                            \/ StartsWith(value, SYMBOL_TO_CODE[j].symbol)
                            \/ EndsWith(value, SYMBOL_TO_CODE[j].symbol)})
    IN IF k = 0 THEN Undefined ELSE SYMBOL_TO_CODE[k].symbol

\* SYMBOL_TO_CODE[symbol]
CodeOfSymbol(symbol) ==
    SYMBOL_TO_CODE[CHOOSE k \in 1..Len(SYMBOL_TO_CODE) : SYMBOL_TO_CODE[k].symbol = symbol].code

asIsoPrice(input, options) ==
    LET \* the two throws, for a symbol that was detected and a currency that was given
        Mismatch(symbol) ==
            LET expectedCode == CodeOfSymbol(symbol)
                expectedUniqueSymbol == UniqueSymbolOf(expectedCode)
                targetUniqueSymbol == UniqueSymbolOf(options.currency)
            IN \/ expectedUniqueSymbol # Undefined /\ expectedCode # options.currency
               \/ targetUniqueSymbol # Undefined /\ targetUniqueSymbol # symbol
        Checked(symbol) ==
            IF symbol # Undefined /\ options.currency # Undefined /\ Mismatch(symbol)
            THEN Err("CurrencyMismatch")
            ELSE asIsoPriceWords(input, options)
    IN IF input.type = "string" /\ isIsoPriceHuman(input.chars)
       THEN Checked(detectSymbol(input.chars))
       ELSE asIsoPriceWords(input, options)

-----------------------------------------------------------------------------
(* allocatePrice                                                           *)

SeedModulus == 1000000
HashMultiplier == 31
HashModulus == 1000

AllocationRemainderMode == {"first", "last", "largest", "random"}

\* Array.prototype.sort on records with a numeric key, ascending by key; the
\* sort is stable, so equal keys keep their order
RECURSIVE InsertByKey(_, _)
InsertByKey(sorted, x) ==
    IF sorted = <<>> THEN <<x>>
    ELSE IF sorted[Len(sorted)].key <= x.key THEN Append(sorted, x)
    ELSE Append(InsertByKey(SubSeq(sorted, 1, Len(sorted) - 1), x), sorted[Len(sorted)])

RECURSIVE SortByKey(_)
SortByKey(s) ==
    IF s = <<>> THEN <<>>
    ELSE InsertByKey(SortByKey(SubSeq(s, 1, Len(s) - 1)), s[Len(s)])

\* the fraction (r / totalRatio) * sum(allocations) - allocations[i], times
\* totalRatio: the comparator only reads the sign of a difference of two
\* fractions, and totalRatio is positive
FractionTimesTotal(ratios, allocations, i) ==
    ratios[i] * SumSeq(allocations) - allocations[i] * SumSeq(ratios)

\* mutant: the last policy hands out from the front, as the first policy does
getDistributionIndices_LastFromFront(length, count, mode, allocations, hasRatios, ratios) ==
    IF count = 0 THEN <<>>
    ELSE IF count >= length
    THEN Range0(length) \o [i \in 1..(count - length) |-> (i - 1) % length]
    ELSE CASE mode = "first" -> Range0(count)
           [] mode = "last" -> Range0(count)
           [] mode = "largest" ->
                IF ~hasRatios THEN Range0(count)
                ELSE LET fractions == [i \in 1..Len(ratios) |->
                                         [index |-> i - 1,
                                          key |-> -FractionTimesTotal(ratios, allocations, i)]]
                         sorted == SortByKey(fractions)
                     IN [i \in 1..count |-> sorted[i].index]
           [] mode = "random" ->
                LET seed == BigIntRem(SumSeq(allocations), SeedModulus)
                    indices == [i \in 1..length |->
                                  [index |-> i - 1,
                                   key |-> BigIntRem((i - 1) * HashMultiplier + seed, HashModulus)]]
                    sorted == SortByKey(indices)
                IN [i \in 1..count |-> sorted[i].index]
           [] OTHER -> Range0(count)

getDistributionIndices(length, count, mode, allocations, hasRatios, ratios) ==
    IF count = 0 THEN <<>>
    ELSE IF count >= length
    THEN Range0(length) \o [i \in 1..(count - length) |-> (i - 1) % length]
    ELSE CASE mode = "first" -> Range0(count)
           [] mode = "last" -> [i \in 1..count |-> length - 1 - (i - 1)]
           [] mode = "largest" ->
                IF ~hasRatios THEN Range0(count)
                ELSE LET fractions == [i \in 1..Len(ratios) |->
                                         [index |-> i - 1,
                                          key |-> -FractionTimesTotal(ratios, allocations, i)]]
                         sorted == SortByKey(fractions)
                     IN [i \in 1..count |-> sorted[i].index]
           [] mode = "random" ->
                LET seed == BigIntRem(SumSeq(allocations), SeedModulus)
                    indices == [i \in 1..length |->
                                  [index |-> i - 1,
                                   key |-> BigIntRem((i - 1) * HashMultiplier + seed, HashModulus)]]
                    sorted == SortByKey(indices)
                IN [i \in 1..count |-> sorted[i].index]
           [] OTHER -> Range0(count)

\* mutant: the sign of the remainder is dropped, every receiver gets +1
distributeRemainder_Unsigned(allocations, remainder, mode, hasRatios, ratios) ==
    LET absRemainder == IF remainder < 0 THEN -remainder ELSE remainder
        indices == getDistributionIndices(Len(allocations), absRemainder, mode,
                                          allocations, hasRatios, ratios)
    IN [j \in 1..Len(allocations) |->
          allocations[j] + Cardinality({k \in 1..Len(indices) : indices[k] = j - 1})]

distributeRemainder(allocations, remainder, mode, hasRatios, ratios) ==
    LET isNegative == remainder < 0
        absRemainder == IF isNegative THEN -remainder ELSE remainder
        increment == IF isNegative THEN -1 ELSE 1
        indices == getDistributionIndices(Len(allocations), absRemainder, mode,
                                          allocations, hasRatios, ratios)
    IN [j \in 1..Len(allocations) |->
          allocations[j] + increment * Cardinality({k \in 1..Len(indices) : indices[k] = j - 1})]

formatAllocations(allocations, currency, exponent, format) ==
    LET shapes == [i \in 1..Len(allocations) |-> Shape(allocations[i], currency, exponent)]
    IN IF format = "shape" THEN Ok(shapes)
       ELSE Ok([i \in 1..Len(shapes) |-> asIsoPriceWords(shapes[i], NoOptions).value])

\* mutant: the whole amount is handed out as the remainder of equal parts
allocateEqualParts_RemainderIsAmount(amount, currency, exponent, parts, remainderMode, format) ==
    LET divisor == parts
        baseAmount == BigIntDiv(amount, divisor)
        remainder == amount
        allocations == [i \in 1..parts |-> baseAmount]
    IN formatAllocations(distributeRemainder(allocations, remainder, remainderMode, FALSE, <<>>),
                         currency, exponent, format)

allocateEqualParts(amount, currency, exponent, parts, remainderMode, format) ==
    LET divisor == parts
        baseAmount == BigIntDiv(amount, divisor)
        remainder == BigIntRem(amount, divisor)
        allocations == [i \in 1..parts |-> baseAmount]
    IN formatAllocations(distributeRemainder(allocations, remainder, remainderMode, FALSE, <<>>),
                         currency, exponent, format)

\* mutant: a negative ratio is not rejected
allocateByRatios_NegativeAccepted(amount, currency, exponent, ratios, remainderMode, format) ==
    LET totalRatio == SumSeq(ratios)
        allocations == [i \in 1..Len(ratios) |-> BigIntDiv(amount * ratios[i], totalRatio)]
        allocated == SumSeq(allocations)
        remainder == amount - allocated
    IN IF totalRatio = 0 THEN Err("InvalidPartition")
       ELSE formatAllocations(distributeRemainder(allocations, remainder, remainderMode, TRUE, ratios),
                              currency, exponent, format)

allocateByRatios(amount, currency, exponent, ratios, remainderMode, format) ==
    LET totalRatio == SumSeq(ratios)
        allocations == [i \in 1..Len(ratios) |-> BigIntDiv(amount * ratios[i], totalRatio)]
        allocated == SumSeq(allocations)
        remainder == amount - allocated
    IN IF \E i \in 1..Len(ratios) : ratios[i] < 0 THEN Err("InvalidPartition")
       ELSE IF totalRatio = 0 THEN Err("InvalidPartition")
       ELSE formatAllocations(distributeRemainder(allocations, remainder, remainderMode, TRUE, ratios),
                              currency, exponent, format)

Parts(n) == [hasParts |-> TRUE, parts |-> n, ratios |-> <<>>]

Ratios(r) == [hasParts |-> FALSE, parts |-> 0, ratios |-> r]

allocatePrice(of, into, remainder, format) ==
    LET FromShape(shape) ==
            IF ~shape.ok THEN shape
            ELSE IF into.hasParts
            THEN IF into.parts < 1 THEN Err("InvalidPartition")
                 ELSE allocateEqualParts(shape.value.amount, shape.value.currency,
                                         shape.value.exponent, into.parts, remainder, format)
            ELSE IF Len(into.ratios) < 1 THEN Err("InvalidPartition")
            ELSE allocateByRatios(shape.value.amount, shape.value.currency,
                                  shape.value.exponent, into.ratios, remainder, format)
    IN FromShape(asIsoPriceShape(of, NoOptions))

-----------------------------------------------------------------------------
(* Inputs                                                                  *)

Amounts == -MaxAmount..MaxAmount

\* sequences over S of length 0..n
RECURSIVE SeqsUpTo(_, _)
SeqsUpTo(S, n) ==
    IF n = 0 THEN {<<>>}
    ELSE LET shorter == SeqsUpTo(S, n - 1)
         IN shorter \cup {Append(q, x) : q \in {t \in shorter : Len(t) = n - 1}, x \in S}

\* the prices given to allocatePrice: a shape with and without exponent, and words
AllocateOf ==
    {Shape(a, "USD", WHOLE) : a \in Amounts}
      \cup {Shape(a, "USD", MICRO) : a \in {-11, 5}}
      \cup {Shape(a, "JPY", Undefined) : a \in {-7, 0, 10}}
      \cup {Str(<<"USD", " ", "1", "0", ".", "0", "0">>)}

Partitions ==
    {Parts(n) : n \in 0..MaxParts}
      \cup {Ratios(r) : r \in SeqsUpTo(0..MaxRatio, MaxRatioLen)}
      \cup {Ratios(<<-1>>), Ratios(<<2, -1>>)}

-----------------------------------------------------------------------------
(* Actions: a call is made from the idle state and its outcome recorded    *)

Idle == op = "none"

Init == op = "none" /\ arg = <<>> /\ ret = <<>> /\ held = <<>>

\* the caller drops the result and is ready for the next call
Return ==
    /\ ~Idle
    /\ op' = "none" /\ arg' = <<>> /\ ret' = <<>> /\ held' = <<>>

AllocatePrice ==
    /\ Idle
    /\ \E of \in AllocateOf, into \in Partitions,
          remainder \in AllocationRemainderMode, format \in {"words", "shape"} :
          /\ op' = "allocatePrice"
          /\ arg' = [of |-> of, into |-> into, remainder |-> remainder, format |-> format]
          /\ ret' = allocatePrice(of, into, remainder, format)
          /\ held' = <<>>

NextAllocate == AllocatePrice \/ Return

SpecAllocate == Init /\ [][NextAllocate]_vars

-----------------------------------------------------------------------------
(* Claims about allocatePrice                                              *)

AllocateReturned == op = "allocatePrice" /\ ret.ok

\* the price being allocated, as the shape allocatePrice works on
AllocateShape == asIsoPriceShape(arg.of, NoOptions).value

AllocatePartCount ==
    IF arg.into.hasParts THEN arg.into.parts ELSE Len(arg.into.ratios)

\* an amount at exponent e, expressed at the finer exponent f
AtExponent(amount, e, f) ==
    IF amount = 0 THEN 0 ELSE amount * Pow10(getExponentValue(e) - getExponentValue(f))

\* the shapes a returned list of words parses to
ParsedParts == [i \in 1..Len(ret.value) |-> asIsoPriceShape(ret.value[i], NoOptions)]

\* C1: allocate returns as many Prices as the partition has parts, all in the
\* currency and scale of the allocated Price, and their amounts add up exactly
\* to its amount.  A structured result is read directly; a result in words is
\* parsed back, and its parts are summed at the scale they are written in.
C1_AllocateConservesAmount ==
    AllocateReturned =>
      LET of == AllocateShape
          parts == IF arg.format = "shape" THEN [i \in 1..Len(ret.value) |-> Ok(ret.value[i])]
                   ELSE ParsedParts
          f == parts[1].value.exponent
      IN /\ Len(ret.value) = AllocatePartCount
         /\ \A i \in 1..Len(parts) :
              /\ parts[i].ok
              /\ parts[i].value.currency = of.currency
              /\ parts[i].value.exponent = f
         /\ arg.format = "shape" => f = of.exponent
         /\ getExponentValue(f) <= getExponentValue(of.exponent)
         /\ SumSeq([i \in 1..Len(parts) |-> parts[i].value.amount])
              = AtExponent(of.amount, of.exponent, f)

\* C1 witness: a negative amount split by ratios under the largest policy with
\* a remainder of two units to hand out
C1_Witness ==
    /\ AllocateReturned
    /\ arg.format = "shape"
    /\ arg.remainder = "largest"
    /\ ~arg.into.hasParts
    /\ AllocateShape.amount < 0
    /\ Len(arg.into.ratios) = 3
    /\ LET total == SumSeq(arg.into.ratios)
       IN AllocateShape.amount
            - SumSeq([i \in 1..3 |-> BigIntDiv(AllocateShape.amount * arg.into.ratios[i], total)])
            = -2

\* the base share of part i, before the remainder is handed out
BaseShare(i) ==
    IF arg.into.hasParts THEN BigIntDiv(AllocateShape.amount, arg.into.parts)
    ELSE BigIntDiv(AllocateShape.amount * arg.into.ratios[i], SumSeq(arg.into.ratios))

\* the parts that received one unit of the remainder
Receivers == {i \in 1..Len(ret.value) : ret.value[i].amount # BaseShare(i)}

RemainderCount == Abs(AllocateShape.amount - SumSeq([i \in 1..AllocatePartCount |-> BaseShare(i)]))

\* numerator over sum(r) of the fractional part of the exact share amount*r_i/sum(r),
\* as its magnitude and as the distance to the floor: the two agree when the amount
\* is not negative
FractionMagnitude(i) == (Abs(AllocateShape.amount) * arg.into.ratios[i]) % SumSeq(arg.into.ratios)

FractionAboveFloor(i) == (AllocateShape.amount * arg.into.ratios[i]) % SumSeq(arg.into.ratios)

\* C9: under the largest policy with ratios the extra units go to the parts
\* with the largest fractional part of the exact share amount*r_i/sum(r), and
\* with an equal partition to the first |remainder| parts.  (For a negative
\* amount either reading of "fractional part" is accepted.)
C9_LargestByExactFraction ==
    (AllocateReturned /\ arg.format = "shape" /\ arg.remainder = "largest") =>
      /\ Cardinality(Receivers) = RemainderCount
      /\ \A i \in Receivers : Abs(ret.value[i].amount - BaseShare(i)) = 1
      /\ arg.into.hasParts => Receivers = 1..RemainderCount
      /\ ~arg.into.hasParts =>
           \/ \A i \in Receivers, j \in (1..AllocatePartCount) \ Receivers :
                FractionMagnitude(i) >= FractionMagnitude(j)
           \/ \A i \in Receivers, j \in (1..AllocatePartCount) \ Receivers :
                FractionAboveFloor(i) >= FractionAboveFloor(j)

-----------------------------------------------------------------------------
(* Large bigints and the number that scales the multiplier                 *)
(*                                                                         *)
(* multiplyPrice forms amount * BigInt(Math.round(by * 1e12)), which is    *)
(* far above the integers TLC computes with.  Such a bigint is carried as  *)
(* the sequence of its base-10000 digits, least significant first, with    *)
(* its sign apart: [neg |-> BOOLEAN, mag |-> digits].                      *)

Base == 10000

\* the digits of n >= 0
RECURSIVE BigOf(_)
BigOf(n) == IF n < Base THEN <<n>> ELSE <<n % Base>> \o BigOf(n \div Base)

\* the value of the digits, for a value TLC can compute with
RECURSIVE BigToInt(_)
BigToInt(x) == IF x = <<>> THEN 0 ELSE Head(x) + Base * BigToInt(Tail(x))

\* x without its leading zero digits
RECURSIVE BigTrim(_)
BigTrim(x) ==
    IF x # <<>> /\ x[Len(x)] = 0 THEN BigTrim(SubSeq(x, 1, Len(x) - 1)) ELSE x

BigIsZero(x) == BigTrim(x) = <<>>

\* x * c + carry, for 0 <= c < 200000
RECURSIVE BigMulSmall(_, _, _)
BigMulSmall(x, c, carry) ==
    IF x = <<>> THEN (IF carry = 0 THEN <<>> ELSE BigOf(carry))
    ELSE LET t == Head(x) * c + carry
         IN <<t % Base>> \o BigMulSmall(Tail(x), c, t \div Base)

\* x * 10^n
RECURSIVE BigMulPow10(_, _)
BigMulPow10(x, n) ==
    IF n = 0 THEN x
    ELSE IF n >= 4 THEN BigMulPow10(<<0>> \o x, n - 4)
    ELSE BigMulSmall(x, Pow10(n), 0)

\* x < y, for trimmed x and y
RECURSIVE BigLessTrimmed(_, _)
BigLessTrimmed(x, y) ==
    IF Len(x) # Len(y) THEN Len(x) < Len(y)
    ELSE IF x = <<>> THEN FALSE
    ELSE IF x[Len(x)] # y[Len(y)] THEN x[Len(x)] < y[Len(y)]
    ELSE BigLessTrimmed(SubSeq(x, 1, Len(x) - 1), SubSeq(y, 1, Len(y) - 1))

BigLess(x, y) == BigLessTrimmed(BigTrim(x), BigTrim(y))

\* quotient and remainder of x by d, for 0 < d < 200000, from the top digit down
RECURSIVE BigDivSmall(_, _)
BigDivSmall(x, d) ==
    IF x = <<>> THEN [q |-> <<>>, r |-> 0]
    ELSE LET FromHigher(h) ==
                 LET t == h.r * Base + Head(x)
                 IN [q |-> <<t \div d>> \o h.q, r |-> t % d]
         IN FromHigher(BigDivSmall(Tail(x), d))

RECURSIVE Pow2(_)
Pow2(n) == IF n = 0 THEN 1 ELSE 2 * Pow2(n - 1)

\* a double has a significand of 53 bits: 2^53 is 9007199254740992
TwoTo53 == <<992, 5474, 1992, 9007>>

\* the most bits beyond 53 of the numbers converted here
MaxExtraBits == 14

\* the nearest double to the integer x, ties to the even significand: the result
\* of the floating-point product by * 1e12 when by and the product are integers
ToDouble(x) ==
    LET extra == CHOOSE e \in 0..MaxExtraBits :
                   /\ e = MaxExtraBits \/ BigLess(x, BigMulSmall(TwoTo53, Pow2(e), 0))
                   /\ \A g \in 0..(e - 1) : ~BigLess(x, BigMulSmall(TwoTo53, Pow2(g), 0))
        Rounded(d, h) ==
            LET up == h.r > d \div 2 \/ (h.r = d \div 2 /\ h.q[1] % 2 = 1)
            IN BigMulSmall(h.q, d, IF up THEN d ELSE 0)
    IN IF extra = 0 THEN x ELSE Rounded(Pow2(extra), BigDivSmall(x, Pow2(extra)))

\* multiplyPrice scales the scalar by 1e12
ScaleDigits == 12

\* BigInt(Math.round(by * 1e12)) for by = mantissa / 10^digits.  The product is
\* the double nearest to mantissa * 10^(12 - digits); Math.round leaves an integer
\* as it is.  (For a fraction the double of by is inexact too, by less than
\* Math.round takes away for the multipliers used here.)
ScaleFactorOf(by) ==
    [neg |-> by.mantissa < 0,
     mag |-> ToDouble(BigMulPow10(BigOf(Abs(by.mantissa)), ScaleDigits - by.digits))]

-----------------------------------------------------------------------------
(* Round modes and the three rounding kernels                              *)

FLOOR == "floor"
CEIL == "ceil"
HALF_UP == "half-up"
HALF_DOWN == "half-down"
HALF_EVEN == "half-even"

IsoPriceRoundMode == {FLOOR, CEIL, HALF_UP, HALF_DOWN, HALF_EVEN}

\* options?.round ?? IsoPriceRoundMode.HALF_UP
RoundModeOrDefault(round) == IF round = Undefined THEN HALF_UP ELSE round

\* mutant: half-up adds one to the quotient whatever the sign of the amount
applyRound_HalfUpAddsOne(amount, divisor, mode) ==
    LET isNegative == amount.neg /\ ~BigIsZero(amount.mag)
        padded == amount.mag \o [i \in 1..divisor |-> 0]
        absQuotient == BigToInt(SubSeq(padded, divisor + 1, Len(padded)))
        quotient == IF isNegative THEN -absQuotient ELSE absQuotient
        absRemainder == SubSeq(padded, 1, divisor)
        halfDivisor == [i \in 1..divisor |-> IF i = divisor THEN Base \div 2 ELSE 0]
        awayFromZero == IF isNegative THEN quotient - 1 ELSE quotient + 1
    IN IF BigIsZero(absRemainder) THEN quotient
       ELSE CASE mode = FLOOR -> IF isNegative THEN quotient - 1 ELSE quotient
              [] mode = CEIL -> IF isNegative THEN quotient ELSE quotient + 1
              [] mode = HALF_UP ->
                   IF ~BigLess(absRemainder, halfDivisor) THEN quotient + 1 ELSE quotient
              [] mode = HALF_DOWN ->
                   IF BigLess(halfDivisor, absRemainder) THEN awayFromZero ELSE quotient
              [] mode = HALF_EVEN ->
                   LET isEven == BigIntRem(quotient, 2) = 0
                   IN IF BigTrim(absRemainder) = BigTrim(halfDivisor)
                      THEN (IF isEven THEN quotient ELSE quotient + 1)
                      ELSE IF BigLess(halfDivisor, absRemainder) THEN awayFromZero
                      ELSE quotient
              [] OTHER -> quotient

\* multiplyPrice.ts: the kernel multiplyPrice rounds with.  The divisor is
\* BigInt(1e12), the cube of Base, so the quotient is the digits of the amount
\* from the fourth on and the remainder its first three
applyRound(amount, divisor, mode) ==
    LET isNegative == amount.neg /\ ~BigIsZero(amount.mag)
        padded == amount.mag \o [i \in 1..divisor |-> 0]
        absQuotient == BigToInt(SubSeq(padded, divisor + 1, Len(padded)))
        quotient == IF isNegative THEN -absQuotient ELSE absQuotient
        absRemainder == SubSeq(padded, 1, divisor)
        halfDivisor == [i \in 1..divisor |-> IF i = divisor THEN Base \div 2 ELSE 0]
        awayFromZero == IF isNegative THEN quotient - 1 ELSE quotient + 1
    IN IF BigIsZero(absRemainder) THEN quotient
       ELSE CASE mode = FLOOR -> IF isNegative THEN quotient - 1 ELSE quotient
              [] mode = CEIL -> IF isNegative THEN quotient ELSE quotient + 1
              [] mode = HALF_UP ->
                   IF ~BigLess(absRemainder, halfDivisor) THEN awayFromZero ELSE quotient
              [] mode = HALF_DOWN ->
                   IF BigLess(halfDivisor, absRemainder) THEN awayFromZero ELSE quotient
              [] mode = HALF_EVEN ->
                   LET isEven == BigIntRem(quotient, 2) = 0
                   IN IF BigTrim(absRemainder) = BigTrim(halfDivisor)
                      THEN (IF isEven THEN quotient ELSE quotient + 1)
                      ELSE IF BigLess(halfDivisor, absRemainder) THEN awayFromZero
                      ELSE quotient
              [] OTHER -> quotient

\* mutant: half-even resolves a tie as half-up does
applyRoundMode_TieAway(value, divisor, mode) ==
    LET quotient == BigIntDiv(value, divisor)
        remainder == BigIntRem(value, divisor)
        isNegative == value < 0
        absRemainder == IF isNegative THEN -remainder ELSE remainder
        halfDivisor == BigIntDiv(divisor, 2)
        awayFromZero == IF isNegative THEN quotient - 1 ELSE quotient + 1
    IN IF remainder = 0 THEN quotient
       ELSE CASE mode = FLOOR -> IF isNegative THEN quotient - 1 ELSE quotient
              [] mode = CEIL -> IF isNegative THEN quotient ELSE quotient + 1
              [] mode = HALF_UP -> IF absRemainder >= halfDivisor THEN awayFromZero ELSE quotient
              [] mode = HALF_DOWN -> IF absRemainder > halfDivisor THEN awayFromZero ELSE quotient
              [] mode = HALF_EVEN -> IF absRemainder >= halfDivisor THEN awayFromZero ELSE quotient
              [] OTHER -> quotient

\* setPricePrecision.ts: the kernel setPricePrecision rounds with
applyRoundMode(value, divisor, mode) ==
    LET quotient == BigIntDiv(value, divisor)
        remainder == BigIntRem(value, divisor)
        isNegative == value < 0
        absRemainder == IF isNegative THEN -remainder ELSE remainder
        halfDivisor == BigIntDiv(divisor, 2)
        awayFromZero == IF isNegative THEN quotient - 1 ELSE quotient + 1
    IN IF remainder = 0 THEN quotient
       ELSE CASE mode = FLOOR -> IF isNegative THEN quotient - 1 ELSE quotient
              [] mode = CEIL -> IF isNegative THEN quotient ELSE quotient + 1
              [] mode = HALF_UP -> IF absRemainder >= halfDivisor THEN awayFromZero ELSE quotient
              [] mode = HALF_DOWN -> IF absRemainder > halfDivisor THEN awayFromZero ELSE quotient
              [] mode = HALF_EVEN ->
                   IF absRemainder > halfDivisor THEN awayFromZero
                   ELSE IF absRemainder = halfDivisor
                        THEN LET absQuotient == IF isNegative THEN -quotient ELSE quotient
                             IN IF BigIntRem(absQuotient, 2) # 0 THEN awayFromZero ELSE quotient
                        ELSE quotient
              [] OTHER -> quotient

\* the result in the requested format
InFormat(resultShape, format) ==
    IF format = "shape" THEN Ok(resultShape) ELSE asIsoPriceWords(resultShape, NoOptions)

-----------------------------------------------------------------------------
(* multiplyPrice                                                           *)

\* the scalar mantissa / 10^digits
Scalar(m, f) == [mantissa |-> m, digits |-> f]

\* shape.amount * scaleFactor is formed digit by digit and rounded back by
\* applyRound with the divisor BigInt(1e12)
multiplyPrice(of, by, round, format) ==
    LET FromShape(shape) ==
            IF ~shape.ok THEN shape
            ELSE LET inputExponent == shape.value.exponent
                     roundMode == RoundModeOrDefault(round)
                     scaleFactor == ScaleFactorOf(by)
                     multiplied ==
                         [neg |-> (shape.value.amount < 0) # scaleFactor.neg,
                          mag |-> BigMulSmall(scaleFactor.mag, Abs(shape.value.amount), 0)]
                     rounded == applyRound(multiplied, ScaleDigits \div 4, roundMode)
                     resultShape == Shape(rounded, shape.value.currency, inputExponent)
                 IN InFormat(resultShape, format)
    IN FromShape(asIsoPriceShape(of, NoOptions))

-----------------------------------------------------------------------------
(* dividePrice                                                             *)

Hundred == 100
Million == 1000000
Billion == 1000000000

getRequiredExponent(inputExponent, divisor) ==
    LET absDivisor == Abs(divisor)
    IN IF absDivisor < Hundred THEN inputExponent
       ELSE IF absDivisor < Million THEN MILLI
       ELSE IF absDivisor < Billion THEN NANO
       ELSE PICO

\* inputExpValue - outputExpValue
DivideScaleDiff(inputExponent, by) ==
    getExponentValue(inputExponent) - getExponentValue(getRequiredExponent(inputExponent, by))

\* 10n ** BigInt(scaleDiff) throws a RangeError when scaleDiff is negative
dividePrice(of, by, round, format) ==
    LET roundMode == RoundModeOrDefault(round)
        divisor == Abs(by)
        sign == IF by < 0 THEN -1 ELSE 1
        \* the rounding switch, from the scaled amount on
        Quotient(scaledAmount) ==
            LET remainder == BigIntRem(scaledAmount, divisor)
                baseQuotient == BigIntDiv(scaledAmount, divisor)
                isNegative == scaledAmount < 0
                absRemainder == IF remainder < 0 THEN -remainder ELSE remainder
                doubledRemainder == absRemainder * 2
                isExactlyHalf == doubledRemainder = divisor
                isMoreThanHalf == doubledRemainder > divisor
                awayFromZero == IF isNegative THEN baseQuotient - 1 ELSE baseQuotient + 1
            IN IF remainder = 0 THEN baseQuotient
               ELSE CASE roundMode = FLOOR ->
                           IF isNegative THEN baseQuotient - 1 ELSE baseQuotient
                      [] roundMode = CEIL ->
                           IF isNegative THEN baseQuotient ELSE baseQuotient + 1
                      [] roundMode = HALF_UP ->
                           IF isExactlyHalf \/ isMoreThanHalf THEN awayFromZero
                           ELSE baseQuotient
                      [] roundMode = HALF_DOWN ->
                           IF isMoreThanHalf THEN awayFromZero ELSE baseQuotient
                      [] roundMode = HALF_EVEN ->
                           LET isEven == BigIntRem(baseQuotient, 2) = 0
                           IN IF isExactlyHalf
                              THEN (IF isEven THEN baseQuotient ELSE baseQuotient + 1)
                              ELSE IF isMoreThanHalf THEN awayFromZero
                              ELSE baseQuotient
                      [] OTHER -> baseQuotient
        FromShape(shape) ==
            IF ~shape.ok THEN shape
            ELSE LET inputExponent == shape.value.exponent
                     outputExponent == getRequiredExponent(inputExponent, by)
                     scaleDiff == DivideScaleDiff(inputExponent, by)
                 IN IF scaleDiff < 0 THEN Err("RangeError")
                    ELSE InFormat(Shape(Quotient(IF shape.value.amount = 0 THEN 0
                                                 ELSE shape.value.amount * Pow10(scaleDiff)) * sign,
                                        shape.value.currency, outputExponent),
                                  format)
    IN IF by = 0 THEN Err("DivisionByZero")
       ELSE FromShape(asIsoPriceShape(of, NoOptions))

-----------------------------------------------------------------------------
(* setPricePrecision and roundPrice                                        *)

setPricePrecision(of, to, round) ==
    LET FromShape(shape) ==
            IF ~shape.ok THEN shape
            ELSE LET currentExp == getExponentValue(shape.value.exponent)
                     targetExp == getExponentValue(to)
                     scaleDiff == currentExp - targetExp
                     newAmount ==
                         IF scaleDiff > 0
                         THEN (IF shape.value.amount = 0 THEN 0
                               ELSE shape.value.amount * Pow10(scaleDiff))
                         ELSE IF scaleDiff < 0
                         THEN applyRoundMode(shape.value.amount, Pow10(-scaleDiff),
                                             RoundModeOrDefault(round))
                         ELSE shape.value.amount
                     newShape == Shape(newAmount, shape.value.currency, to)
                 IN asIsoPriceWords(newShape, NoOptions)
    IN FromShape(asIsoPriceShape(of, NoOptions))

roundPrice(of, to, round) == setPricePrecision(of, to, round)

-----------------------------------------------------------------------------
(* Inputs and actions of the arithmetic and precision operations           *)

MaxMantissa == 15
MaxFracDigits == 1
MaxDivisor == 4
MaxTie == 3

RoundOptions == IsoPriceRoundMode \cup {Undefined}

Formats == {"words", "shape"}

\* USD 5.555, the price of the setPricePrecision examples
WordsMilli == Str(<<"USD", " ", "5", ".", "5", "5", "5">>)

MultiplyOf ==
    {Shape(a, "USD", CENTI) : a \in Amounts} \cup {Shape(-7, "JPY", WHOLE), WordsMilli}

\* the least positive integer by for which by * 1e12 is not a double
FirstInexactMultiplier == 36893489

\* small multipliers with and without a fraction, and integers on either side of
\* the first whose product with 1e12 is not a double
Scalars ==
    {Scalar(m, f) : m \in -MaxMantissa..MaxMantissa, f \in 0..MaxFracDigits}
      \cup {Scalar(s * m, 0) : s \in {-1, 1},
                               m \in {FirstInexactMultiplier - 1, FirstInexactMultiplier}}

DivideOf ==
    {Shape(a, "USD", e) : a \in Amounts, e \in IsoPriceExponent} \cup {WordsMilli}

\* small divisors, and the divisors on either side of each threshold
Divisors ==
    LET magnitudes == (1..MaxDivisor)
                        \cup {Hundred - 1, Hundred, Million - 1, Million, Billion - 1, Billion}
    IN {0} \cup magnitudes \cup {-v : v \in magnitudes}

\* amounts on, just below and just above the ties of one, two and three digits
PrecisionAmounts ==
    Amounts \cup {5 * k : k \in -MaxTie..MaxTie}
            \cup {50 * k + j : k \in -MaxTie..MaxTie, j \in {-1, 0, 1}}
            \cup {500 * k : k \in -MaxTie..MaxTie}

PrecisionOf ==
    {Shape(a, "USD", e) : a \in PrecisionAmounts, e \in {CENTI, MILLI}} \cup {WordsMilli}

\* the digits by which an amount at exponent from is shifted up to reach exponent to
ShiftUp(from, to) == getExponentValue(from) - getExponentValue(to)

\* the amount times 10^shift stays within the integers of the model
Representable(amount, shift) ==
    amount = 0 \/ shift <= 0 \/ (shift <= MaxShift /\ Abs(amount) <= MaxAmount)

\* the product of amount and multiplier stays within the integers of the model
ProductRepresentable(amount, by) ==
    Abs(amount) <= MaxAmount + 1 \/ Abs(by.mantissa) <= MaxMantissa + 1

MultiplyPrice ==
    /\ Idle
    /\ \E of \in MultiplyOf, by \in Scalars, round \in RoundOptions, format \in Formats :
          /\ by.digits <= ScaleDigits
          /\ ProductRepresentable(asIsoPriceShape(of, NoOptions).value.amount, by)
          /\ op' = "multiplyPrice"
          /\ arg' = [of |-> of, by |-> by, round |-> round, format |-> format]
          /\ ret' = multiplyPrice(of, by, round, format)
          /\ held' = <<>>

DividePrice ==
    /\ Idle
    /\ \E of \in DivideOf, by \in Divisors, round \in RoundOptions, format \in Formats :
          /\ LET shape == asIsoPriceShape(of, NoOptions).value
             IN Representable(shape.amount, DivideScaleDiff(shape.exponent, by))
          /\ op' = "dividePrice"
          /\ arg' = [of |-> of, by |-> by, round |-> round, format |-> format]
          /\ ret' = dividePrice(of, by, round, format)
          /\ held' = <<>>

SetPricePrecision ==
    /\ Idle
    /\ \E of \in PrecisionOf, to \in IsoPriceExponent, round \in RoundOptions :
          /\ LET shape == asIsoPriceShape(of, NoOptions).value
             IN Representable(shape.amount, ShiftUp(shape.exponent, to))
          /\ op' = "setPricePrecision"
          /\ arg' = [of |-> of, to |-> to, round |-> round]
          /\ ret' = setPricePrecision(of, to, round)
          /\ held' = <<>>

RoundPrice ==
    /\ Idle
    /\ \E of \in PrecisionOf, to \in IsoPriceExponent, round \in RoundOptions :
          /\ LET shape == asIsoPriceShape(of, NoOptions).value
             IN Representable(shape.amount, ShiftUp(shape.exponent, to))
          /\ op' = "roundPrice"
          /\ arg' = [of |-> of, to |-> to, round |-> round]
          /\ ret' = roundPrice(of, to, round)
          /\ held' = <<>>

NextArith == MultiplyPrice \/ DividePrice \/ SetPricePrecision \/ RoundPrice \/ Return

SpecArith == Init /\ [][NextArith]_vars

-----------------------------------------------------------------------------
(* Claims about multiplyPrice, dividePrice, setPricePrecision, roundPrice  *)

\* the price an arithmetic call was given, as a shape
OfShape == asIsoPriceShape(arg.of, NoOptions).value

\* the exact product or quotient of the call as the fraction
\* ExactNumerator / ExactDenominator of units of the output scale
ExactNumerator ==
    IF op = "multiplyPrice" THEN OfShape.amount * arg.by.mantissa
    ELSE (IF arg.by < 0 THEN -1 ELSE 1)
           * (IF OfShape.amount = 0 THEN 0
              ELSE OfShape.amount * Pow10(DivideScaleDiff(OfShape.exponent, arg.by)))

ExactDenominator ==
    IF op = "multiplyPrice" THEN Pow10(arg.by.digits) ELSE Abs(arg.by)

\* a product or quotient was returned as a shape
ScaledReturned ==
    op \in {"multiplyPrice", "dividePrice"} /\ ret.ok /\ arg.format = "shape"

\* largest integer not above n / d, smallest integer not below n / d, for d > 0
FloorOf(n, d) == n \div d

CeilOf(n, d) == -((-n) \div d)

\* n / d lies exactly halfway between two adjacent integers
IsTie(n, d) == (2 * n) % (2 * d) = d

\* C4: with half-even, an exact product or quotient that lies halfway between two
\* adjacent amounts is returned as the even one of the two, whatever its sign
C4_HalfEvenTiesToEven ==
    (ScaledReturned /\ arg.round = HALF_EVEN) =>
      LET n == ExactNumerator
          d == ExactDenominator
      IN IsTie(n, d) =>
           /\ ret.value.amount % 2 = 0
           /\ ret.value.amount \in {FloorOf(n, d), CeilOf(n, d)}

\* the scale the divisor's magnitude selects
ScaleForDivisor(inputExponent, v) ==
    IF Abs(v) < 100 THEN inputExponent
    ELSE IF Abs(v) < 1000000 THEN MILLI
    ELSE IF Abs(v) < 1000000000 THEN NANO
    ELSE PICO

\* C5: divide by a non-zero integer returns a price, at the input scale, milli,
\* nano or pico according to the magnitude of the divisor, for every input scale
C5_DivideOutputScale ==
    (op = "dividePrice" /\ arg.by # 0) =>
      /\ ret.ok
      /\ arg.format = "shape" =>
           ret.value.exponent = ScaleForDivisor(OfShape.exponent, arg.by)

\* C6: the scale divide chooses is never coarser than the input scale, and the
\* rescale to it is carried out (as amount * 10^k with k >= 0, which keeps the value)
C6_DivideRescaleLossless ==
    (op = "dividePrice" /\ arg.by # 0) =>
      /\ getExponentValue(getRequiredExponent(OfShape.exponent, arg.by))
           <= getExponentValue(OfShape.exponent)
      /\ ret.error # "RangeError"

\* C7: floor returns the largest amount not above the exact product or quotient,
\* ceil the smallest amount not below it, for every sign of amount and scalar
C7_FloorCeilDirected ==
    (ScaledReturned /\ arg.round \in {FLOOR, CEIL}) =>
      LET n == ExactNumerator
          d == ExactDenominator
      IN ret.value.amount = IF arg.round = FLOOR THEN FloorOf(n, d) ELSE CeilOf(n, d)

\* setPricePrecision or roundPrice returned and the target scale is coarser
PrecisionLowered ==
    /\ op \in {"setPricePrecision", "roundPrice"}
    /\ ret.ok
    /\ ShiftUp(OfShape.exponent, arg.to) < 0

\* n / d rounded to an integer by the mode, for d > 0
RoundedExactly(n, d, mode) ==
    LET lo == FloorOf(n, d)
        hi == CeilOf(n, d)
        twiceAboveLo == 2 * (n - lo * d)
    IN CASE mode = FLOOR -> lo
         [] mode = CEIL -> hi
         [] twiceAboveLo < d -> lo
         [] twiceAboveLo > d -> hi
         [] mode = HALF_UP -> IF n > 0 THEN hi ELSE lo
         [] mode = HALF_DOWN -> IF n > 0 THEN lo ELSE hi
         [] mode = HALF_EVEN -> IF lo % 2 = 0 THEN lo ELSE hi

-----------------------------------------------------------------------------
(* Casts: a shape is written in words and the words are read back          *)

\* amounts with one to seven digits, so that both separators are written
CastAmounts ==
    Amounts \cup {s * a : s \in {-1, 1}, a \in {100, 999, 1000, 1050, 120000, 1234567}}

CastShapes ==
    {Shape(a, c, e) : a \in CastAmounts, c \in CurrencyCodes, e \in IsoPriceExponent}

AsIsoPriceWords ==
    /\ Idle
    /\ \E input \in CastShapes :
          /\ op' = "asIsoPriceWords"
          /\ arg' = input
          /\ ret' = asIsoPriceWords(input, NoOptions)
          /\ held' = <<>>

\* the caller keeps the shape it formatted and parses the words it got
AsIsoPriceShapeOfWords ==
    /\ op = "asIsoPriceWords"
    /\ ret.ok
    /\ op' = "asIsoPriceShape"
    /\ arg' = ret.value
    /\ ret' = asIsoPriceShape(ret.value, NoOptions)
    /\ held' = arg

NextCast == AsIsoPriceWords \/ AsIsoPriceShapeOfWords \/ Return

SpecCast == Init /\ [][NextCast]_vars

\* words have been parsed back and held is the shape they were written from
RoundTripDone == op = "asIsoPriceShape" /\ held # <<>>

\* C2 as stated: parsing the words of a shape gives back the same amount,
\* currency and scale
C2_RoundTripIdentity ==
    RoundTripDone =>
      /\ ret.ok
      /\ ret.value.amount = held.amount
      /\ ret.value.currency = held.currency
      /\ ret.value.exponent = held.exponent

\* C2 amended: parsing the words of a shape gives back the same currency and the
\* same value; amount and scale are the same when the scale is at least as fine
\* as the currency's default scale, and otherwise the result is at the default
\* scale with the amount scaled up to it
C2_RoundTripKeepsValue ==
    RoundTripDone =>
      LET default == getIsoPriceExponentByCurrency(held.currency)
      IN /\ ret.ok
         /\ ret.value.currency = held.currency
         /\ IF getExponentValue(held.exponent) <= getExponentValue(default)
            THEN ret.value.amount = held.amount /\ ret.value.exponent = held.exponent
            ELSE /\ ret.value.exponent = default
                 /\ ret.value.amount = AtExponent(held.amount, held.exponent, default)

\* C2 witness: a negative dinar amount at centi scale, coarser than the dinar's
\* milli default, has made the round trip
C2_Witness ==
    /\ RoundTripDone
    /\ held.currency = "BHD"
    /\ held.exponent = CENTI
    /\ held.amount = -1050
    /\ ret.ok

-----------------------------------------------------------------------------
(* sumPrices, subPrices, the comparisons, calcPriceAvg, calcPriceStdev     *)

\* prices.map((p) => asIsoPriceShape(p))
ShapesOf(prices) == [i \in 1..Len(prices) |-> asIsoPriceShape(prices[i], NoOptions)]

\* the error of the first input that has no shape, which map would throw
FirstFailure(shapes) ==
    shapes[CHOOSE i \in 1..Len(shapes) :
             ~shapes[i].ok /\ \A j \in 1..(i - 1) : shapes[j].ok]

AllOk(shapes) == \A i \in 1..Len(shapes) : shapes[i].ok

\* shapes.find((s) => s.currency !== currency) found one
HasMismatch(shapes) ==
    \E i \in 1..Len(shapes) : shapes[i].value.currency # shapes[1].value.currency

\* the first exponent with the lowest value
findHighestPrecisionExponent(exponents) ==
    exponents[CHOOSE i \in 1..Len(exponents) :
                /\ \A j \in 1..Len(exponents) :
                     getExponentValue(exponents[i]) <= getExponentValue(exponents[j])
                /\ \A j \in 1..(i - 1) :
                     getExponentValue(exponents[j]) > getExponentValue(exponents[i])]

normalizeAmount(amount, sourceExponent, targetExponent) ==
    LET diff == getExponentValue(sourceExponent) - getExponentValue(targetExponent)
    IN IF diff > 0 THEN (IF amount = 0 THEN 0 ELSE amount * Pow10(diff))
       ELSE IF diff < 0 THEN BigIntDiv(amount, Pow10(-diff))
       ELSE amount

\* the amounts of the shapes at the target exponent
NormalizedAmounts(shapes, targetExponent) ==
    [i \in 1..Len(shapes) |->
       normalizeAmount(shapes[i].value.amount, shapes[i].value.exponent, targetExponent)]

\* mutant: only the first amount is shifted to the target scale
sumPrices_OnlyFirstShifted(prices, format) ==
    LET FromShapes(shapes) ==
            IF ~AllOk(shapes) THEN FirstFailure(shapes)
            ELSE IF HasMismatch(shapes) THEN Err("CurrencyMismatch")
            ELSE LET exponents == [i \in 1..Len(shapes) |-> shapes[i].value.exponent]
                     targetExponent == findHighestPrecisionExponent(exponents)
                     targetExponentValue == getExponentValue(targetExponent)
                     normalizedAmount(shape) ==
                         IF shape.amount = 0 THEN 0
                         ELSE shape.amount
                                * Pow10(getExponentValue(shape.exponent) - targetExponentValue)
                     total == SumSeq([i \in 1..Len(shapes) |->
                                        IF i = 1 THEN normalizedAmount(shapes[i].value)
                                        ELSE shapes[i].value.amount])
                 IN InFormat(Shape(total, shapes[1].value.currency, targetExponent), format)
    IN IF Len(prices) = 0 THEN Err("EmptyInput")
       ELSE FromShapes(ShapesOf(prices))

\* mutant: the amounts are added as they are, without the shift to the target scale
sumPrices_Unshifted(prices, format) ==
    LET FromShapes(shapes) ==
            IF ~AllOk(shapes) THEN FirstFailure(shapes)
            ELSE IF HasMismatch(shapes) THEN Err("CurrencyMismatch")
            ELSE LET exponents == [i \in 1..Len(shapes) |-> shapes[i].value.exponent]
                     targetExponent == findHighestPrecisionExponent(exponents)
                     total == SumSeq([i \in 1..Len(shapes) |-> shapes[i].value.amount])
                 IN InFormat(Shape(total, shapes[1].value.currency, targetExponent), format)
    IN IF Len(prices) = 0 THEN Err("EmptyInput")
       ELSE FromShapes(ShapesOf(prices))

\* the target is exponents[exponentValues.indexOf(Math.min(...exponentValues))], the
\* first exponent with the lowest value, and each amount is shifted up to it
sumPrices(prices, format) ==
    LET FromShapes(shapes) ==
            IF ~AllOk(shapes) THEN FirstFailure(shapes)
            ELSE IF HasMismatch(shapes) THEN Err("CurrencyMismatch")
            ELSE LET exponents == [i \in 1..Len(shapes) |-> shapes[i].value.exponent]
                     targetExponent == findHighestPrecisionExponent(exponents)
                     targetExponentValue == getExponentValue(targetExponent)
                     \* shape.amount * 10n ** BigInt(shift)
                     normalizedAmount(shape) ==
                         IF shape.amount = 0 THEN 0
                         ELSE shape.amount
                                * Pow10(getExponentValue(shape.exponent) - targetExponentValue)
                     total == SumSeq([i \in 1..Len(shapes) |-> normalizedAmount(shapes[i].value)])
                 IN InFormat(Shape(total, shapes[1].value.currency, targetExponent), format)
    IN IF Len(prices) = 0 THEN Err("EmptyInput")
       ELSE FromShapes(ShapesOf(prices))

\* mutant: the amounts are subtracted as they are, without a common exponent
subPrices_Unnormalized(minuend, subtrahend, format) ==
    LET FromShapes(minuendShape, subtrahendShape) ==
            IF ~minuendShape.ok THEN minuendShape
            ELSE IF ~subtrahendShape.ok THEN subtrahendShape
            ELSE IF minuendShape.value.currency # subtrahendShape.value.currency
            THEN Err("CurrencyMismatch")
            ELSE InFormat(Shape(minuendShape.value.amount - subtrahendShape.value.amount,
                                minuendShape.value.currency, minuendShape.value.exponent),
                          format)
    IN FromShapes(asIsoPriceShape(minuend, NoOptions), asIsoPriceShape(subtrahend, NoOptions))

\* mutant: the currencies are not compared
subPrices_AnyCurrency(minuend, subtrahend, format) ==
    LET FromShapes(minuendShape, subtrahendShape) ==
            IF ~minuendShape.ok THEN minuendShape
            ELSE IF ~subtrahendShape.ok THEN subtrahendShape
            ELSE LET targetExponent ==
                         findHighestPrecisionExponent(<<minuendShape.value.exponent,
                                                        subtrahendShape.value.exponent>>)
                     n == NormalizedAmounts(<<minuendShape, subtrahendShape>>, targetExponent)
                 IN InFormat(Shape(n[1] - n[2], minuendShape.value.currency, targetExponent),
                             format)
    IN FromShapes(asIsoPriceShape(minuend, NoOptions), asIsoPriceShape(subtrahend, NoOptions))

subPrices(minuend, subtrahend, format) ==
    LET FromShapes(minuendShape, subtrahendShape) ==
            IF ~minuendShape.ok THEN minuendShape
            ELSE IF ~subtrahendShape.ok THEN subtrahendShape
            ELSE IF minuendShape.value.currency # subtrahendShape.value.currency
            THEN Err("CurrencyMismatch")
            ELSE LET currency == minuendShape.value.currency
                     minuendExp == getExponentValue(minuendShape.value.exponent)
                     subtrahendExp == getExponentValue(subtrahendShape.value.exponent)
                     targetExponentValue == IF minuendExp <= subtrahendExp THEN minuendExp
                                            ELSE subtrahendExp
                     targetExponent == IF minuendExp <= subtrahendExp
                                       THEN minuendShape.value.exponent
                                       ELSE subtrahendShape.value.exponent
                     minuendShift == minuendExp - targetExponentValue
                     subtrahendShift == subtrahendExp - targetExponentValue
                     normalizedMinuend ==
                         IF minuendShape.value.amount = 0 THEN 0
                         ELSE minuendShape.value.amount * Pow10(minuendShift)
                     normalizedSubtrahend ==
                         IF subtrahendShape.value.amount = 0 THEN 0
                         ELSE subtrahendShape.value.amount * Pow10(subtrahendShift)
                     difference == normalizedMinuend - normalizedSubtrahend
                 IN InFormat(Shape(difference, currency, targetExponent), format)
    IN FromShapes(asIsoPriceShape(minuend, NoOptions), asIsoPriceShape(subtrahend, NoOptions))

isIsoPriceEqual(a, b) ==
    LET FromDiff(diff) == IF ~diff.ok THEN diff ELSE Ok(diff.value.amount = 0)
    IN FromDiff(subPrices(a, b, "shape"))

\* mutant: greater also holds of equal prices
isIsoPriceGreater_OrEqual(a, b) ==
    LET FromDiff(diff) == IF ~diff.ok THEN diff ELSE Ok(diff.value.amount >= 0)
    IN FromDiff(subPrices(a, b, "shape"))

isIsoPriceGreater(a, b) ==
    LET FromDiff(diff) == IF ~diff.ok THEN diff ELSE Ok(diff.value.amount > 0)
    IN FromDiff(subPrices(a, b, "shape"))

isIsoPriceLesser(a, b) ==
    LET FromDiff(diff) == IF ~diff.ok THEN diff ELSE Ok(diff.value.amount < 0)
    IN FromDiff(subPrices(a, b, "shape"))

calcPriceAvg(prices, format) ==
    LET FromShapes(shapes) ==
            IF ~AllOk(shapes) THEN FirstFailure(shapes)
            ELSE IF HasMismatch(shapes) THEN Err("CurrencyMismatch")
            ELSE LET exponents == [i \in 1..Len(shapes) |-> shapes[i].value.exponent]
                     targetExponent == findHighestPrecisionExponent(exponents)
                     sum == SumSeq(NormalizedAmounts(shapes, targetExponent))
                     avgAmount == BigIntDiv(sum, Len(prices))
                 IN InFormat(Shape(avgAmount, shapes[1].value.currency, targetExponent), format)
    IN IF Len(prices) = 0 THEN Err("EmptyInput")
       ELSE FromShapes(ShapesOf(prices))

\* the loop of bigintSqrt: while (y < x) { x = y; y = (x + n / x) / 2n }
RECURSIVE NewtonLoop(_, _, _)
NewtonLoop(n, x, y) ==
    IF y < x THEN NewtonLoop(n, y, BigIntDiv(y + BigIntDiv(n, y), 2)) ELSE x

\* mutant: the first guess is returned without the loop
bigintSqrt_FirstGuess(n) ==
    IF n < 0 THEN Err("NegativeSqrt")
    ELSE IF n = 0 THEN Ok(0)
    ELSE IF n = 1 THEN Ok(1)
    ELSE Ok(BigIntDiv(n + 1, 2))

bigintSqrt(n) ==
    IF n < 0 THEN Err("NegativeSqrt")
    ELSE IF n = 0 THEN Ok(0)
    ELSE IF n = 1 THEN Ok(1)
    ELSE Ok(NewtonLoop(n, n, BigIntDiv(n + 1, 2)))

calcPriceStdev(prices, format) ==
    LET count == Len(prices)
        \* the single value, from its shape on
        FromShape(shape) ==
            IF ~shape.ok THEN shape
            ELSE InFormat(Shape(0, shape.value.currency, shape.value.exponent), format)
        \* from the square root on
        FromSqrt(stdevAmount, currency, targetExponent) ==
            IF ~stdevAmount.ok THEN stdevAmount
            ELSE InFormat(Shape(stdevAmount.value, currency, targetExponent), format)
        \* from the normalized amounts on
        FromAmounts(normalizedAmounts, currency, targetExponent) ==
            LET mean == BigIntDiv(SumSeq(normalizedAmounts), count)
                sumSquaredDev ==
                    SumSeq([i \in 1..count |->
                              (normalizedAmounts[i] - mean) * (normalizedAmounts[i] - mean)])
                variance == BigIntDiv(sumSquaredDev, count)
            IN FromSqrt(bigintSqrt(variance), currency, targetExponent)
        FromShapes(shapes) ==
            IF ~AllOk(shapes) THEN FirstFailure(shapes)
            ELSE IF HasMismatch(shapes) THEN Err("CurrencyMismatch")
            ELSE LET exponents == [i \in 1..Len(shapes) |-> shapes[i].value.exponent]
                     targetExponent == findHighestPrecisionExponent(exponents)
                 IN FromAmounts(NormalizedAmounts(shapes, targetExponent),
                                shapes[1].value.currency, targetExponent)
    IN IF count = 0 THEN Err("EmptyInput")
       ELSE IF count = 1 THEN FromShape(asIsoPriceShape(prices[1], NoOptions))
       ELSE FromShapes(ShapesOf(prices))

-----------------------------------------------------------------------------
(* asIsoPriceSorted                                                        *)

\* mutant: equal prices are put in the reverse of their input order
SortComparator_TiesReversed(a, b, order) ==
    LET FromDiff(diff) ==
            IF diff.value.amount = 0 THEN b.originalIndex - a.originalIndex
            ELSE LET isNegative == diff.value.amount < 0
                 IN IF order = "asc" THEN (IF isNegative THEN -1 ELSE 1)
                    ELSE (IF isNegative THEN 1 ELSE -1)
    IN FromDiff(subPrices(a.words, b.words, "shape"))

\* the comparator handed to Array.prototype.sort: negative when a goes before b
SortComparator(a, b, order) ==
    LET FromDiff(diff) ==
            IF diff.value.amount = 0 THEN a.originalIndex - b.originalIndex
            ELSE LET isNegative == diff.value.amount < 0
                 IN IF order = "asc" THEN (IF isNegative THEN -1 ELSE 1)
                    ELSE (IF isNegative THEN 1 ELSE -1)
    IN FromDiff(subPrices(a.words, b.words, "shape"))

\* Array.prototype.sort is stable: item goes after every element that does not
\* compare greater than it
RECURSIVE InsertByComparator(_, _, _)
InsertByComparator(sorted, item, order) ==
    IF sorted = <<>> THEN <<item>>
    ELSE IF SortComparator(item, Head(sorted), order) < 0 THEN <<item>> \o sorted
    ELSE <<Head(sorted)>> \o InsertByComparator(Tail(sorted), item, order)

RECURSIVE SortByComparator(_, _)
SortByComparator(items, order) ==
    IF items = <<>> THEN <<>>
    ELSE InsertByComparator(SortByComparator(SubSeq(items, 1, Len(items) - 1), order),
                            items[Len(items)], order)

asIsoPriceSorted(prices, options) ==
    LET order == IF options.order = Undefined THEN "asc" ELSE options.order
        \* wordsWithIndex.map((item) => item.words)
        WordsOfItems(sorted) == Ok([i \in 1..Len(sorted) |-> sorted[i].words])
        \* from the mapped words on
        FromWords(converted) ==
            IF ~AllOk(converted) THEN FirstFailure(converted)
            ELSE LET wordsWithIndex ==
                         [i \in 1..Len(prices) |->
                            [words |-> converted[i].value, originalIndex |-> i - 1]]
                     currencies == {converted[i].value.chars[1] : i \in 1..Len(prices)}
                 IN IF Len(prices) = 1 THEN Ok(<<converted[1].value>>)
                    ELSE IF Cardinality(currencies) > 1 THEN Err("CurrencyMismatch")
                    ELSE WordsOfItems(SortByComparator(wordsWithIndex, order))
    IN IF Len(prices) = 0 THEN Ok(<<>>)
       ELSE FromWords([i \in 1..Len(prices) |-> asIsoPriceWords(prices[i], NoOptions)])

-----------------------------------------------------------------------------
(* Inputs and actions of the operations on several prices                  *)

MaxPrices == 3

\* prices of three currencies at mixed scales and in the three input formats, with
\* equal values written differently
ComparePool ==
    {Shape(a, "USD", CENTI) : a \in {-500, 900, 10000}}
      \cup {Shape(9, "USD", WHOLE), Shape(9000001, "USD", MICRO),
            Str(<<"USD", " ", "5", "0", ".", "0", "0">>),
            Str(<<"$", "9", ".", "0", "0", "1">>),
            Shape(900, "EUR", CENTI), Shape(100, "JPY", Undefined)}

\* small prices, so that squared deviations stay small
StatPool ==
    {Shape(a, "USD", CENTI) : a \in {-3, 0, 4, 10}}
      \cup {Shape(25, "USD", MILLI), Shape(4, "EUR", CENTI)}

Orders == {"asc", "desc", Undefined}

SumPrices ==
    /\ Idle
    /\ \E prices \in SeqsUpTo(ComparePool, MaxPrices), format \in Formats :
          /\ op' = "sumPrices"
          /\ arg' = [prices |-> prices, format |-> format]
          /\ ret' = sumPrices(prices, format)
          /\ held' = <<>>

SubPrices ==
    /\ Idle
    /\ \E a \in ComparePool, b \in ComparePool, format \in Formats :
          /\ op' = "subPrices"
          /\ arg' = [prices |-> <<a, b>>, format |-> format]
          /\ ret' = subPrices(a, b, format)
          /\ held' = <<>>

IsIsoPriceEqual ==
    /\ Idle
    /\ \E a \in ComparePool, b \in ComparePool :
          /\ op' = "isIsoPriceEqual"
          /\ arg' = [prices |-> <<a, b>>]
          /\ ret' = isIsoPriceEqual(a, b)
          /\ held' = <<>>

IsIsoPriceGreater ==
    /\ Idle
    /\ \E a \in ComparePool, b \in ComparePool :
          /\ op' = "isIsoPriceGreater"
          /\ arg' = [prices |-> <<a, b>>]
          /\ ret' = isIsoPriceGreater(a, b)
          /\ held' = <<>>

IsIsoPriceLesser ==
    /\ Idle
    /\ \E a \in ComparePool, b \in ComparePool :
          /\ op' = "isIsoPriceLesser"
          /\ arg' = [prices |-> <<a, b>>]
          /\ ret' = isIsoPriceLesser(a, b)
          /\ held' = <<>>

CalcPriceAvg ==
    /\ Idle
    /\ \E prices \in SeqsUpTo(StatPool, MaxPrices), format \in Formats :
          /\ op' = "calcPriceAvg"
          /\ arg' = [prices |-> prices, format |-> format]
          /\ ret' = calcPriceAvg(prices, format)
          /\ held' = <<>>

CalcPriceStdev ==
    /\ Idle
    /\ \E prices \in SeqsUpTo(StatPool, MaxPrices), format \in Formats :
          /\ op' = "calcPriceStdev"
          /\ arg' = [prices |-> prices, format |-> format]
          /\ ret' = calcPriceStdev(prices, format)
          /\ held' = <<>>

AsIsoPriceSorted ==
    /\ Idle
    /\ \E prices \in SeqsUpTo(ComparePool, MaxPrices), order \in Orders :
          /\ op' = "asIsoPriceSorted"
          /\ arg' = [prices |-> prices, options |-> [order |-> order]]
          /\ ret' = asIsoPriceSorted(prices, [order |-> order])
          /\ held' = <<>>

NextCompare ==
    \/ SumPrices \/ SubPrices
    \/ IsIsoPriceEqual \/ IsIsoPriceGreater \/ IsIsoPriceLesser
    \/ CalcPriceAvg \/ CalcPriceStdev
    \/ AsIsoPriceSorted
    \/ Return

SpecCompare == Init /\ [][NextCompare]_vars

-----------------------------------------------------------------------------
(* Claims about the operations on several prices                           *)

CurrencyCheckedOps ==
    {"sumPrices", "subPrices", "isIsoPriceEqual", "isIsoPriceGreater", "isIsoPriceLesser",
     "calcPriceAvg", "calcPriceStdev", "asIsoPriceSorted"}

\* the currency an input names: the field of a shape, the code that starts words,
\* the default currency of the symbol of a symbol-form string
CurrencyOf(input) ==
    IF input.type = "object" THEN input.currency
    ELSE IF input.chars[1] \in CurrencyCodes THEN input.chars[1]
    ELSE LET glyph == IF \E k \in 1..Len(SYMBOL_TO_CODE) :
                           SYMBOL_TO_CODE[k].symbol = input.chars[1]
                      THEN input.chars[1] ELSE input.chars[Len(input.chars)]
         IN SYMBOL_TO_CODE[CHOOSE k \in 1..Len(SYMBOL_TO_CODE) :
                             SYMBOL_TO_CODE[k].symbol = glyph].code

\* the call was given two or more prices that do not all share one currency
MixedCurrencies ==
    /\ op \in CurrencyCheckedOps
    /\ Len(arg.prices) >= 2
    /\ \E i, j \in 1..Len(arg.prices) : CurrencyOf(arg.prices[i]) # CurrencyOf(arg.prices[j])

\* C3: sum, subtract, equal, greater, lesser, average, stddev and sorted fail with a
\* currency mismatch, and return nothing, when given prices of different currencies
C3_MixedCurrenciesRejected ==
    MixedCurrencies => (~ret.ok /\ ret.error = "CurrencyMismatch" /\ ret.value = <<>>)

\* C3 witness: a comparison of a dollar price with a euro price was rejected
C3_Witness ==
    /\ MixedCurrencies
    /\ op = "isIsoPriceGreater"
    /\ CurrencyOf(arg.prices[1]) = "USD"
    /\ CurrencyOf(arg.prices[2]) = "EUR"
    /\ ~ret.ok

\* the value of shape p is not above the value of shape q
ValueAtMost(p, q) ==
    LET f == IF getExponentValue(p.exponent) <= getExponentValue(q.exponent)
             THEN p.exponent ELSE q.exponent
    IN AtExponent(p.amount, p.exponent, f) <= AtExponent(q.amount, q.exponent, f)

Bijections(n) ==
    {pi \in [1..n -> 1..n] : \A i, j \in 1..n : pi[i] = pi[j] => i = j}

SortedReturned == op = "asIsoPriceSorted" /\ ret.ok

\* C10: the result lists the words of the inputs, each input once, in an order in
\* which the values of the inputs never decrease (asc, the default) or never
\* increase (desc); the values are those of the inputs themselves, at any scale
C10_SortedIsOrderedPermutation ==
    SortedReturned =>
      LET n == Len(arg.prices)
          shapes == [i \in 1..n |-> asIsoPriceShape(arg.prices[i], NoOptions).value]
          words == [i \in 1..n |-> asIsoPriceWords(arg.prices[i], NoOptions).value]
          descending == arg.options.order = "desc"
      IN /\ Len(ret.value) = n
         /\ \E pi \in Bijections(n) :
              /\ \A i \in 1..n : ret.value[i] = words[pi[i]]
              /\ \A i \in 1..(n - 1) :
                   IF descending THEN ValueAtMost(shapes[pi[i + 1]], shapes[pi[i]])
                   ELSE ValueAtMost(shapes[pi[i]], shapes[pi[i + 1]])

\* C10 witness: three prices at three scales, one negative, given out of order
\* and returned in descending order
C10_Witness ==
    /\ SortedReturned
    /\ arg.options.order = "desc"
    /\ arg.prices = <<Shape(-500, "USD", CENTI), Shape(9000001, "USD", MICRO),
                      Shape(9, "USD", WHOLE)>>
    /\ Len(ret.value) = 3

-----------------------------------------------------------------------------
(* Claims about the order of equal prices and about the comparisons        *)

\* shapes p and q have the same value
ValueEqual(p, q) == ValueAtMost(p, q) /\ ValueAtMost(q, p)

\* C11: the result of sorted is the words of the inputs in an arrangement in
\* which any two inputs of equal value, whatever scales they are written at, stand
\* in the order they had in the input, for asc and for desc
C11_SortedIsStable ==
    SortedReturned =>
      LET n == Len(arg.prices)
          shapes == [i \in 1..n |-> asIsoPriceShape(arg.prices[i], NoOptions).value]
          words == [i \in 1..n |-> asIsoPriceWords(arg.prices[i], NoOptions).value]
      IN \E pi \in Bijections(n) :
           /\ \A i \in 1..n : ret.value[i] = words[pi[i]]
           /\ \A i, j \in 1..n :
                (i < j /\ ValueEqual(shapes[pi[i]], shapes[pi[j]])) => pi[i] < pi[j]

\* C11 witness: nine dollars written at centi scale after nine dollars written at
\* whole scale, with a larger price between them, sorted in descending order
C11_Witness ==
    /\ SortedReturned
    /\ arg.options.order = "desc"
    /\ arg.prices = <<Shape(9, "USD", WHOLE), Shape(10000, "USD", CENTI),
                      Shape(900, "USD", CENTI)>>
    /\ ret.value = <<Str(<<"USD", " ", "1", "0", "0", ".", "0", "0">>),
                     Str(<<"USD", " ", "9">>),
                     Str(<<"USD", " ", "9", ".", "0", "0">>)>>

\* a comparison of two prices that name the same currency has returned
ComparisonReturned ==
    /\ op \in {"isIsoPriceEqual", "isIsoPriceGreater", "isIsoPriceLesser"}
    /\ CurrencyOf(arg.prices[1]) = CurrencyOf(arg.prices[2])

\* C12: for two prices of one currency, at any scales and in any input format,
\* exactly one of equal, greater and lesser is true, and the comparison that was
\* called returned its own answer
C12_ExactlyOneComparisonHolds ==
    ComparisonReturned =>
      LET a == arg.prices[1]
          b == arg.prices[2]
          answers == <<isIsoPriceEqual(a, b), isIsoPriceGreater(a, b), isIsoPriceLesser(a, b)>>
      IN /\ \A k \in 1..3 : answers[k].ok /\ answers[k].value \in BOOLEAN
         /\ Cardinality({k \in 1..3 : answers[k].value}) = 1
         /\ ret = answers[CHOOSE k \in 1..3 :
                            op = <<"isIsoPriceEqual", "isIsoPriceGreater", "isIsoPriceLesser">>[k]]

\* C12 witness: nine dollars at whole scale was found lesser than the symbol-form
\* string of nine dollars and a tenth of a cent
C12_Witness ==
    /\ ComparisonReturned
    /\ op = "isIsoPriceLesser"
    /\ arg.prices = <<Shape(9, "USD", WHOLE), Str(<<"$", "9", ".", "0", "0", "1">>)>>
    /\ ret = Ok(TRUE)

-----------------------------------------------------------------------------
(* Claims about sumPrices and its interplay with multiplyPrice             *)

\* the shapes of the prices a call was given
GivenShapes == [i \in 1..Len(arg.prices) |-> asIsoPriceShape(arg.prices[i], NoOptions).value]

\* sumPrices returned for one or more prices of one currency
SumReturned ==
    /\ op = "sumPrices"
    /\ Len(arg.prices) >= 1
    /\ \A i \in 1..Len(arg.prices) : CurrencyOf(arg.prices[i]) = CurrencyOf(arg.prices[1])

\* the scale with the most digits among the shapes
FinestExponent(shapes) ==
    CHOOSE e \in {shapes[i].exponent : i \in 1..Len(shapes)} :
      \A i \in 1..Len(shapes) : getExponentValue(e) <= getExponentValue(shapes[i].exponent)

\* C13: the sum of one or more prices of one currency is a price of that currency
\* at the finest scale among the inputs, and its amount is the exact sum of the
\* input amounts, each multiplied by the power of ten that brings it to that scale;
\* in words it is that price written out
C13_SumAtFinestScaleIsExact ==
    SumReturned =>
      LET shapes == GivenShapes
          finest == FinestExponent(shapes)
          exact == SumSeq([i \in 1..Len(shapes) |->
                             AtExponent(shapes[i].amount, shapes[i].exponent, finest)])
          expected == Shape(exact, shapes[1].currency, finest)
      IN /\ ret.ok
         /\ ret.value = IF arg.format = "shape" THEN expected
                        ELSE asIsoPriceWords(expected, NoOptions).value

\* C13 witness: a negative centi price, a whole price and a micro price were summed
\* at micro scale
C13_Witness ==
    /\ SumReturned
    /\ arg.format = "shape"
    /\ arg.prices = <<Shape(-500, "USD", CENTI), Shape(9, "USD", WHOLE),
                      Shape(9000001, "USD", MICRO)>>
    /\ ret.value = Shape(13000001, "USD", MICRO)

-----------------------------------------------------------------------------
(* A caller that multiplies a sum and sums the products                    *)
(*                                                                         *)
(* The caller sums a and b and multiplies the sum, then multiplies a and b *)
(* and sums the products, each by one call of the operation; held is what  *)
(* it keeps from call to call.                                             *)

\* dollar prices at whole, centi and milli scale and in words
DistributePool ==
    {Shape(a, "USD", CENTI) : a \in {-7, -1, 0, 1, 3, 12}}
      \cup {Shape(1, "USD", WHOLE), Shape(-2, "USD", WHOLE), Shape(5, "USD", MILLI),
            Str(<<"USD", " ", "0", ".", "5", "0">>)}

\* step 1: sumPrices([a, b], { format: 'shape' })
SumTheTerms ==
    /\ Idle
    /\ \E a \in DistributePool, b \in DistributePool, by \in Scalars, round \in RoundOptions :
          /\ \A of \in {a, b} :
               ProductRepresentable(asIsoPriceShape(of, NoOptions).value.amount, by)
          /\ op' = "sumPrices"
          /\ arg' = [prices |-> <<a, b>>, format |-> "shape"]
          /\ ret' = sumPrices(<<a, b>>, "shape")
          /\ held' = [step |-> 1, a |-> a, b |-> b, by |-> by, round |-> round,
                      left |-> <<>>, products |-> <<>>]

\* the call of multiplyPrice the caller makes on a price
MultiplyHeld(of, kept) ==
    /\ op' = "multiplyPrice"
    /\ arg' = [of |-> of, by |-> held.by, round |-> held.round, format |-> "shape"]
    /\ ret' = multiplyPrice(of, held.by, held.round, "shape")
    /\ held' = kept

\* step 2: multiplyPrice({ of: the sum, by }, { round, format: 'shape' })
MultiplyTheSum ==
    /\ op = "sumPrices" /\ held # <<>> /\ held.step = 1 /\ ret.ok
    /\ ProductRepresentable(ret.value.amount, held.by)
    /\ MultiplyHeld(ret.value, [held EXCEPT !.step = 2])

\* step 3: the product of the sum is kept and a is multiplied
MultiplyTheFirst ==
    /\ op = "multiplyPrice" /\ held # <<>> /\ held.step = 2 /\ ret.ok
    /\ MultiplyHeld(held.a, [held EXCEPT !.step = 3, !.left = ret.value])

\* step 4: the product of a is kept and b is multiplied
MultiplyTheSecond ==
    /\ op = "multiplyPrice" /\ held # <<>> /\ held.step = 3 /\ ret.ok
    /\ MultiplyHeld(held.b, [held EXCEPT !.step = 4, !.products = <<ret.value>>])

\* step 5: sumPrices([product of a, product of b], { format: 'shape' })
SumTheProducts ==
    /\ op = "multiplyPrice" /\ held # <<>> /\ held.step = 4 /\ ret.ok
    /\ LET products == Append(held.products, ret.value)
       IN /\ op' = "sumPrices"
          /\ arg' = [prices |-> products, format |-> "shape"]
          /\ ret' = sumPrices(products, "shape")
          /\ held' = [held EXCEPT !.step = 5, !.products = products]

NextDistribute ==
    \/ SumTheTerms \/ MultiplyTheSum \/ MultiplyTheFirst \/ MultiplyTheSecond
    \/ SumTheProducts \/ Return

SpecDistribute == Init /\ [][NextDistribute]_vars

\* both sides have been computed: held.left is the product of the sum and ret the
\* sum of the products
BothSidesDone == op = "sumPrices" /\ held # <<>> /\ held.step = 5

\* the multiplier is not an integer
IsFractional(by) == by.mantissa % Pow10(by.digits) # 0

\* the rounding was left at its default
DefaultRounding == held.round = Undefined

\* the digits between the scales of a and b
ScaleGap ==
    Abs(getExponentValue(asIsoPriceShape(held.a, NoOptions).value.exponent)
          - getExponentValue(asIsoPriceShape(held.b, NoOptions).value.exponent))

C15_IntegerMultiplierDistributes ==
    (BothSidesDone /\ ~IsFractional(held.by)) =>
      /\ ret.ok
      /\ ret.value = held.left

-----------------------------------------------------------------------------
(* Amounts written in words with zero to thirteen fractional digits        *)

MaxFractionDigits == 13

\* the amounts that are written: an integer part, one of them with a separator,
\* and a fraction of zeros and then a tail, in one run of digits or in groups of
\* three.  The amount fits the integers of the model: a fraction of more than
\* six digits comes with a zero integer part and at least four zeros at the front
WrittenAmounts ==
    LET ints == {<<"0">>, <<"7">>, <<"1", "2">>, <<"1", "_", "2", "3", "4">>}
        tails == {<<>>, <<"1">>, <<"5", "0">>, <<"2", "5">>, <<"9", "0", "7">>}
        Zeros(n) == [i \in 1..n |-> "0"]
        fractions == {Zeros(z) \o t : z \in 0..MaxFractionDigits, t \in tails}
        Fits(int, frac) ==
            /\ Len(frac) <= MaxFractionDigits
            /\ Len(frac) > 6 => int = <<"0">> /\ SubSeq(frac, 1, 4) = Zeros(4)
        Written(c, sign, int, frac, grouped) ==
            Str(<<c, " ">> \o sign \o int \o
                (IF frac = <<>> THEN <<>>
                 ELSE <<".">> \o (IF grouped THEN formatDecimalPart(frac) ELSE frac)))
    IN {Written(c, sign, w[1], w[2], grouped)
          : c \in {"USD", "JPY", "BHD", "EUR"},
            sign \in {<<>>, <<"-">>},
            w \in {v \in ints \X fractions : Fits(v[1], v[2])},
            grouped \in BOOLEAN}

AsIsoPriceShape ==
    /\ Idle
    /\ \E input \in WrittenAmounts :
          /\ op' = "asIsoPriceShape"
          /\ arg' = input
          /\ ret' = asIsoPriceShape(input, NoOptions)
          /\ held' = <<>>

NextParse == AsIsoPriceShape \/ Return

SpecParse == Init /\ [][NextParse]_vars

\* an amount in words has been parsed
ParseReturned == op = "asIsoPriceShape" /\ arg.type = "string"

\* the digits of s, without its sign, separators and decimal point
RECURSIVE OnlyDigits(_)
OnlyDigits(s) ==
    IF s = <<>> THEN <<>>
    ELSE IF IsDigit(Head(s)) THEN <<Head(s)>> \o OnlyDigits(Tail(s))
    ELSE OnlyDigits(Tail(s))

\* the number of digits written after the decimal point of arg
WrittenK ==
    LET point == IndexOf(arg.chars, ".")
    IN IF point = 0 THEN 0 ELSE Len(OnlyDigits(SubSeq(arg.chars, point + 1, Len(arg.chars))))

\* the value as written is WrittenNumerator / 10^WrittenK
WrittenNumerator ==
    LET n == DigitsToInt(OnlyDigits(arg.chars))
    IN IF arg.chars[3] = "-" THEN -n ELSE n

\* the scale the claim names for k fractional digits of a currency
NamedExponent(currency, k) ==
    LET default == getIsoPriceExponentByCurrency(currency)
        enough == {e \in IsoPriceExponent : -getExponentValue(e) >= k}
    IN IF k <= -getExponentValue(default) THEN default
       ELSE IF enough = {} THEN Undefined
       ELSE CHOOSE e \in enough : \A f \in enough : getExponentValue(e) >= getExponentValue(f)

\* C16 as stated: an amount written with k fractional digits is returned at the
\* currency's default scale when k is at most the default's digits, and else at
\* the smallest built-in scale of at least k digits, and in both cases the
\* returned amount at the returned scale is the value as written
C16_ParsedScaleAndValue ==
    ParseReturned =>
      /\ ret.ok
      /\ LET digits == -getExponentValue(ret.value.exponent)
             named == NamedExponent(arg.chars[1], WrittenK)
         IN /\ named # Undefined => ret.value.exponent = named
            /\ IF digits >= WrittenK
               THEN ret.value.amount = WrittenNumerator * Pow10(digits - WrittenK)
               ELSE ret.value.amount * Pow10(WrittenK - digits) = WrittenNumerator

-----------------------------------------------------------------------------
(* Casts of a symbol-form string with a currency asked for                 *)

\* symbol-form strings: a symbol before the amount, or after it and a space
SymbolForms ==
    LET symbols == {"$", "U+20AC", "U+00A3", "U+00A5", "kr"}
        amounts == {<<"5">>, <<"5", "0", ".", "3", "7">>,
                    <<"1", ",", "0", "0", "0", ".", "5">>}
    IN {Str(<<s>> \o a) : s \in symbols, a \in amounts}
         \cup {Str(a \o <<" ", s>>) : s \in symbols, a \in amounts}

\* options: no currency, or one of these
OverrideOptions ==
    {[currency |-> c] : c \in {Undefined, "USD", "EUR", "CAD", "GBP", "JPY", "SEK"}}

AsIsoPriceShapeWithCurrency ==
    /\ Idle
    /\ \E input \in SymbolForms, options \in OverrideOptions :
          /\ op' = "asIsoPriceShape"
          /\ arg' = <<input, options>>
          /\ ret' = asIsoPriceShape(input, options)
          /\ held' = <<>>

AsIsoPriceWordsWithCurrency ==
    /\ Idle
    /\ \E input \in SymbolForms, options \in OverrideOptions :
          /\ op' = "asIsoPriceWords"
          /\ arg' = <<input, options>>
          /\ ret' = asIsoPriceWords(input, options)
          /\ held' = <<>>

AsIsoPrice ==
    /\ Idle
    /\ \E input \in SymbolForms \cup {Str(<<"USD", " ", "5", "0", ".", "3", "7">>),
                                     Shape(5037, "EUR", Undefined)},
          options \in OverrideOptions :
          /\ op' = "asIsoPrice"
          /\ arg' = <<input, options>>
          /\ ret' = asIsoPrice(input, options)
          /\ held' = <<>>

NextOverride ==
    AsIsoPriceShapeWithCurrency \/ AsIsoPriceWordsWithCurrency \/ AsIsoPrice \/ Return

SpecOverride == Init /\ [][NextOverride]_vars

\* a cast was called on a symbol-form string and a currency was asked for
OverrideReturned ==
    /\ op \in {"asIsoPriceShape", "asIsoPriceWords", "asIsoPrice"}
    /\ arg[1] \in SymbolForms
    /\ arg[2].currency # Undefined

\* the symbol the string was written with
InputSymbol ==
    LET chars == arg[1].chars
    IN IF IsDigit(chars[1]) THEN chars[Len(chars)] ELSE chars[1]

\* the symbol is listed as one currency's own and that is not the currency asked
\* for, or the currency asked for is listed with a symbol of its own and that is
\* not the symbol written
SymbolConflict ==
    \/ \E k \in 1..Len(UNIQUE_SYMBOL_CURRENCIES) :
          /\ UNIQUE_SYMBOL_CURRENCIES[k].symbol = InputSymbol
          /\ UNIQUE_SYMBOL_CURRENCIES[k].code # arg[2].currency
    \/ \E k \in 1..Len(UNIQUE_SYMBOL_CURRENCIES) :
          /\ UNIQUE_SYMBOL_CURRENCIES[k].code = arg[2].currency
          /\ UNIQUE_SYMBOL_CURRENCIES[k].symbol # InputSymbol

\* the currency of what a cast returned, a shape or words
ReturnedCurrency ==
    IF ret.value.type = "object" THEN ret.value.currency ELSE ret.value.chars[1]

-----------------------------------------------------------------------------
(* isIsoPriceShape and its assure                                          *)

\* a value of unknown type: what typeof says of it and how it is written
JsValue(t, text) == [typeOf |-> t, text |-> text]

JsUndefined == JsValue("undefined", "undefined")

\* typeof null is 'object'
JsNull == JsValue("object", "null")

\* an object, with what its amount, currency and exponent properties hold
JsObject(amount, currency, exponent) ==
    [typeOf |-> "object", text |-> "{}",
     amount |-> amount, currency |-> currency, exponent |-> exponent]

isIsoPriceShape(value) ==
    IF value.typeOf # "object" \/ value = JsNull THEN FALSE
    ELSE IF value.amount.typeOf # "bigint" THEN FALSE
    ELSE IF value.currency.typeOf # "string" THEN FALSE
    ELSE IF value.exponent # JsUndefined /\ value.exponent.typeOf # "string" THEN FALSE
    ELSE TRUE

isIsoPriceShape_assure(value) ==
    IF ~isIsoPriceShape(value) THEN Err("InvalidFormat") ELSE Ok(Undefined)

\* the values that are guarded: objects by what their amount, currency and
\* exponent hold, and values that are no objects
GuardValues ==
    LET amounts == {JsValue("bigint", "5037"), JsValue("bigint", "-3"),
                    JsValue("number", "5037"), JsValue("string", "5037"), JsUndefined}
        currencies == {JsValue("string", "USD"), JsValue("string", "JPY"), JsUndefined}
        exponents ==
            {JsUndefined, JsValue("number", "2"), JsValue("bigint", "2")}
              \cup {JsValue("string", e) : e \in IsoPriceExponent}
              \cup {JsValue("string", e) : e \in {"deci.x10^-1", "centi", "femto.x10^-15", ""}}
    IN {JsObject(a, c, e) : a \in amounts, c \in currencies, e \in exponents}
         \cup {JsNull, JsUndefined, JsValue("string", "USD 50.37"), JsValue("bigint", "5037")}

IsIsoPriceShape ==
    /\ Idle
    /\ \E value \in GuardValues :
          /\ op' = "isIsoPriceShape"
          /\ arg' = value
          /\ ret' = Ok(isIsoPriceShape(value))
          /\ held' = <<>>

IsIsoPriceShapeAssure ==
    /\ Idle
    /\ \E value \in GuardValues :
          /\ op' = "isIsoPriceShape.assure"
          /\ arg' = value
          /\ ret' = isIsoPriceShape_assure(value)
          /\ held' = <<>>

NextGuard == IsIsoPriceShape \/ IsIsoPriceShapeAssure \/ Return

SpecGuard == Init /\ [][NextGuard]_vars

\* the value carries a scale, and it is none of the six scale tokens
CarriesUnknownScale ==
    /\ arg.typeOf = "object"
    /\ arg # JsNull
    /\ arg.exponent # JsUndefined
    /\ ~(arg.exponent.typeOf = "string" /\ arg.exponent.text \in IsoPriceExponent)

\* C18 as stated: the guard is false of an object that carries a scale other than
\* the six scale tokens, and the assure fails on it
C18_UnknownScaleRejected ==
    /\ (op = "isIsoPriceShape" /\ CarriesUnknownScale) => ret = Ok(FALSE)
    /\ (op = "isIsoPriceShape.assure" /\ CarriesUnknownScale) => ~ret.ok

-----------------------------------------------------------------------------
(* Claims about the remainder of allocatePrice and who receives it         *)

\* parts were returned as shapes, so that their amounts are read directly
AllocatedShapes == AllocateReturned /\ arg.format = "shape"

\* the units part i holds beyond its base share
HandedTo(i) == ret.value[i].amount - BaseShare(i)

\* the remainder that was handed out: all units the parts hold beyond their
\* base shares
HandedOut == SumSeq([i \in 1..Len(ret.value) |-> HandedTo(i)])

\* C19: the remainder handed out after the base shares lies in -(k-1)..(k-1) for
\* k equal parts and is at most k in absolute value for k ratios, whatever the
\* sign of the amount
C19_RemainderBounded ==
    AllocatedShapes =>
      LET k == AllocatePartCount
      IN /\ Len(ret.value) = k
         /\ IF arg.into.hasParts
            THEN HandedOut \in -(k - 1)..(k - 1)
            ELSE Abs(HandedOut) <= k

\* C19 witness: minus five units in three equal parts leave the remainder -2,
\* the lowest an equal partition in three can leave
C19_Witness ==
    /\ AllocatedShapes
    /\ arg.into.hasParts
    /\ arg.into.parts = 3
    /\ AllocateShape.amount = -5
    /\ HandedOut = -2

\* what one extra unit adds to a part: the remainder has the sign of the amount
UnitOfRemainder == IF AllocateShape.amount < 0 THEN -1 ELSE 1

-----------------------------------------------------------------------------
(* A caller that allocates an amount under the random policy, and then the *)
(* same amount again or the amount with its sign turned                    *)

\* the first call: an amount in minor units and a partition
AllocateRandom ==
    LET pool == {Shape(s * a, "USD", CENTI) :
                   s \in {-1, 1}, a \in {5, 7, 10, 100, 982, 1000, 2975}}
        partitions ==
            {Parts(n) : n \in 2..4}
              \cup {Ratios(r) : r \in {<<1, 1, 1>>, <<1, 2>>, <<3, 2, 2>>, <<0, 1, 1, 1>>}}
    IN /\ Idle
       /\ \E of \in pool, into \in partitions :
             /\ op' = "allocatePrice"
             /\ arg' = [of |-> of, into |-> into, remainder |-> "random", format |-> "shape"]
             /\ ret' = allocatePrice(of, into, "random", "shape")
             /\ held' = <<>>

\* the caller keeps the call it made and its result, and makes the call again
AllocateAgain ==
    /\ op = "allocatePrice" /\ arg.remainder = "random" /\ held = <<>> /\ ret.ok
    /\ op' = "allocatePrice"
    /\ arg' = arg
    /\ ret' = allocatePrice(arg.of, arg.into, arg.remainder, arg.format)
    /\ held' = [arg |-> arg, ret |-> ret]

\* the caller keeps the call it made and its result, and allocates the amount
\* with its sign turned
AllocateNegated ==
    /\ op = "allocatePrice" /\ arg.remainder = "random" /\ held = <<>> /\ ret.ok
    /\ LET of == Shape(-arg.of.amount, arg.of.currency, arg.of.exponent)
       IN /\ op' = "allocatePrice"
          /\ arg' = [arg EXCEPT !.of = of]
          /\ ret' = allocatePrice(of, arg.into, arg.remainder, arg.format)
          /\ held' = [arg |-> arg, ret |-> ret]

NextRandom == AllocateRandom \/ AllocateAgain \/ AllocateNegated \/ Return

SpecRandom == Init /\ [][NextRandom]_vars

\* the second call of the caller has returned
SecondAllocated == op = "allocatePrice" /\ held # <<>> /\ ret.ok

\* the base share of part i of a call
BaseShareOf(call, i) ==
    IF call.into.hasParts THEN BigIntDiv(call.of.amount, call.into.parts)
    ELSE BigIntDiv(call.of.amount * call.into.ratios[i], SumSeq(call.into.ratios))

\* the parts of a result that hold a unit beyond their base share
ReceiversOf(call, result) ==
    {i \in 1..Len(result.value) : result.value[i].amount # BaseShareOf(call, i)}

\* C21 as stated: under the random policy a repeated call returns the same
\* parts, and the amounts P and -P hand their extra units to the same indices
C21_RandomBySizeOnly ==
    SecondAllocated =>
      /\ arg = held.arg => ret = held.ret
      /\ ReceiversOf(arg, ret) = ReceiversOf(held.arg, held.ret)

\* the partition is one that cannot be allocated into: fewer than one part, no
\* ratios, a negative ratio, or ratios that are all zero
PartitionInvalid ==
    IF arg.into.hasParts THEN arg.into.parts < 1
    ELSE \/ Len(arg.into.ratios) = 0
         \/ \E i \in 1..Len(arg.into.ratios) : arg.into.ratios[i] < 0
         \/ \A i \in 1..Len(arg.into.ratios) : arg.into.ratios[i] = 0

\* C22: allocatePrice fails with InvalidPartition and returns no parts whenever
\* the part count is below one, the ratio list is empty, a ratio is negative or
\* all ratios are zero
C22_InvalidPartitionRejected ==
    (op = "allocatePrice" /\ PartitionInvalid) =>
      /\ ~ret.ok
      /\ ret.error = "InvalidPartition"
      /\ ret.value = <<>>

\* C22 witness: ratios with a negative entry and a positive sum were rejected
C22_Witness ==
    /\ op = "allocatePrice"
    /\ ~arg.into.hasParts
    /\ arg.into.ratios = <<2, -1>>
    /\ arg.of = Shape(7, "USD", WHOLE)
    /\ ret = Err("InvalidPartition")

-----------------------------------------------------------------------------
(* Claims about calcPriceStdev                                             *)

\* calcPriceStdev returned for two or more prices of one currency
StdevReturned ==
    /\ op = "calcPriceStdev"
    /\ Len(arg.prices) >= 2
    /\ \A i \in 1..Len(arg.prices) : CurrencyOf(arg.prices[i]) = CurrencyOf(arg.prices[1])

\* the variance of amounts: the squared deviations from the truncated mean, summed
\* and divided by the count with truncation
VarianceOf(amounts) ==
    LET n == Len(amounts)
        mean == BigIntDiv(SumSeq(amounts), n)
    IN BigIntDiv(SumSeq([i \in 1..n |-> (amounts[i] - mean) * (amounts[i] - mean)]), n)

-----------------------------------------------------------------------------
(* A caller that sums three prices in the two groupings                    *)
(*                                                                         *)
(* The caller sums b and c and then a and that sum, then sums a and b and  *)
(* then that sum and c, each by one call of sumPrices; an inner sum is     *)
(* passed on as the shape or as the words it was returned in.              *)

\* step 1: sumPrices([b, c], { format: passLeft })
SumTheTail ==
    LET pool == {Shape(a, "USD", CENTI) : a \in {-7, 0, 12}}
                  \cup {Shape(3, "USD", WHOLE), Shape(-2, "USD", Undefined),
                        Shape(5, "USD", MILLI), Shape(1234567, "USD", MICRO),
                        Str(<<"USD", " ", "1", "_", "0", "0", "0", ".", "5", "0">>),
                        Shape(40, "JPY", Undefined), Shape(15, "JPY", CENTI)}
    IN /\ Idle
       /\ \E a \in pool, b \in pool, c \in pool,
             passLeft \in Formats, passRight \in Formats, format \in Formats :
             /\ CurrencyOf(a) = CurrencyOf(b) /\ CurrencyOf(b) = CurrencyOf(c)
             /\ op' = "sumPrices"
             /\ arg' = [prices |-> <<b, c>>, format |-> passLeft]
             /\ ret' = sumPrices(<<b, c>>, passLeft)
             /\ held' = [step |-> 1, a |-> a, b |-> b, c |-> c, passLeft |-> passLeft,
                         passRight |-> passRight, format |-> format, left |-> <<>>]

\* the call of sumPrices the caller makes on two prices
SumHeld(prices, format, kept) ==
    /\ op' = "sumPrices"
    /\ arg' = [prices |-> prices, format |-> format]
    /\ ret' = sumPrices(prices, format)
    /\ held' = kept

\* step 2: sumPrices([a, the sum of b and c], { format })
SumHeadAndTail ==
    /\ op = "sumPrices" /\ held # <<>> /\ held.step = 1 /\ ret.ok
    /\ SumHeld(<<held.a, ret.value>>, held.format, [held EXCEPT !.step = 2])

\* step 3: the left side is kept; sumPrices([a, b], { format: passRight })
SumTheFront ==
    /\ op = "sumPrices" /\ held # <<>> /\ held.step = 2 /\ ret.ok
    /\ SumHeld(<<held.a, held.b>>, held.passRight, [held EXCEPT !.step = 3, !.left = ret.value])

\* step 4: sumPrices([the sum of a and b, c], { format })
SumFrontAndLast ==
    /\ op = "sumPrices" /\ held # <<>> /\ held.step = 3 /\ ret.ok
    /\ SumHeld(<<ret.value, held.c>>, held.format, [held EXCEPT !.step = 4])

NextAssociate ==
    SumTheTail \/ SumHeadAndTail \/ SumTheFront \/ SumFrontAndLast \/ Return

SpecAssociate == Init /\ [][NextAssociate]_vars

\* both groupings have been summed: held.left is sum(a, sum(b, c)) and ret is
\* sum(sum(a, b), c)
BothGroupingsDone == op = "sumPrices" /\ held # <<>> /\ held.step = 4

-----------------------------------------------------------------------------
(* asIsoPriceSorted step by step, with the arrays it reads and creates     *)

\* mutant: the converted items overwrite the array they were computed from
ArrayMap_InPlace(heap, ref, items) ==
    [heap |-> [heap EXCEPT ![ref] = items], ref |-> ref]

\* Array.prototype.map: the items go into a new array; heap[r] is the content
\* of the array with reference r
ArrayMap(heap, ref, items) ==
    [heap |-> Append(heap, items), ref |-> Len(heap) + 1]

\* the call, with the array of the caller at reference 1, and the early
\* return of a new empty array
AsIsoPriceSortedCalled ==
    /\ Idle
    /\ \E prices \in SeqsUpTo(ComparePool, MaxPrices), order \in Orders :
          /\ op' = "asIsoPriceSorted"
          /\ arg' = [prices |-> prices, options |-> [order |-> order]]
          /\ IF Len(prices) = 0
             THEN /\ ret' = Ok(<<>>)
                  /\ held' = [step |-> "done", heap |-> <<prices, <<>> >>,
                              given |-> 1, items |-> 0, result |-> 2]
             ELSE /\ ret' = <<>>
                  /\ held' = [step |-> "called", heap |-> <<prices>>,
                              given |-> 1, items |-> 0, result |-> 0]

\* prices.map(...) to words with their original index, and the early return
\* of a new array with the words of a single element
SortedMapped ==
    /\ op = "asIsoPriceSorted" /\ held # <<>> /\ held.step = "called"
    /\ LET prices == held.heap[held.given]
           FromWords(converted) ==
               IF ~AllOk(converted)
               THEN /\ ret' = FirstFailure(converted)
                    /\ held' = [held EXCEPT !.step = "done"]
               ELSE LET wordsWithIndex ==
                            [i \in 1..Len(prices) |->
                               [words |-> converted[i].value, originalIndex |-> i - 1]]
                        mapped == ArrayMap(held.heap, held.given, wordsWithIndex)
                        single == Append(mapped.heap, <<mapped.heap[mapped.ref][1].words>>)
                    IN IF Len(mapped.heap[mapped.ref]) = 1
                       THEN /\ ret' = Ok(single[Len(single)])
                            /\ held' = [held EXCEPT !.step = "done", !.heap = single,
                                                    !.items = mapped.ref,
                                                    !.result = Len(single)]
                       ELSE /\ ret' = <<>>
                            /\ held' = [held EXCEPT !.step = "mapped",
                                                    !.heap = mapped.heap,
                                                    !.items = mapped.ref]
       IN FromWords([i \in 1..Len(prices) |-> asIsoPriceWords(prices[i], NoOptions)])
    /\ UNCHANGED <<op, arg>>

\* the currency check and wordsWithIndex.sort(...), which sorts in place
SortedInPlace ==
    /\ op = "asIsoPriceSorted" /\ held # <<>> /\ held.step = "mapped"
    /\ LET wordsWithIndex == held.heap[held.items]
           currencies == {wordsWithIndex[i].words.chars[1] : i \in 1..Len(wordsWithIndex)}
           order == IF arg.options.order = Undefined THEN "asc" ELSE arg.options.order
           Sorted(sorted) ==
               /\ ret' = <<>>
               /\ held' = [held EXCEPT !.step = "sorted",
                                       !.heap = [held.heap EXCEPT ![held.items] = sorted]]
       IN IF Cardinality(currencies) > 1
          THEN /\ ret' = Err("CurrencyMismatch")
               /\ held' = [held EXCEPT !.step = "done"]
          ELSE Sorted(SortByComparator(wordsWithIndex, order))
    /\ UNCHANGED <<op, arg>>

\* wordsWithIndex.map((item) => item.words): the returned array is new
SortedWords ==
    /\ op = "asIsoPriceSorted" /\ held # <<>> /\ held.step = "sorted"
    /\ LET wordsWithIndex == held.heap[held.items]
           mapped == ArrayMap(held.heap, held.items,
                              [i \in 1..Len(wordsWithIndex) |-> wordsWithIndex[i].words])
       IN /\ ret' = Ok(mapped.heap[mapped.ref])
          /\ held' = [held EXCEPT !.step = "done", !.heap = mapped.heap,
                                  !.result = mapped.ref]
    /\ UNCHANGED <<op, arg>>

SortedReturn ==
    /\ op = "asIsoPriceSorted" /\ held # <<>> /\ held.step = "done"
    /\ Return

NextSorted ==
    AsIsoPriceSortedCalled \/ SortedMapped \/ SortedInPlace \/ SortedWords
      \/ SortedReturn

SpecSorted == Init /\ [][NextSorted]_vars

-----------------------------------------------------------------------------
(* Claims about the arrays of asIsoPriceSorted                             *)

SortedInProgress == op = "asIsoPriceSorted" /\ held # <<>>

SortedDone == SortedInProgress /\ held.step = "done"

\* the array of the caller still holds what it held at the call
GivenUnmodified == SortedInProgress => held.heap[held.given] = arg.prices

\* a returned array is another array than the one of the caller
ResultIsNew == (SortedDone /\ ret.ok) => held.result # held.given

EmptyGivesEmpty == (SortedDone /\ Len(arg.prices) = 0) => ret = Ok(<<>>)

\* C25 as stated: sorted never modifies the sequence it is given and returns a
\* new sequence; an empty input gives an empty result, and a single-element
\* input gives a result that holds that one element unchanged.
C25_SingleReturnedUnchanged ==
    /\ GivenUnmodified
    /\ ResultIsNew
    /\ EmptyGivesEmpty
    /\ (SortedDone /\ ret.ok /\ Len(arg.prices) = 1) => ret.value = arg.prices

\* C25 amended: sorted never modifies the sequence it is given and, when it
\* returns, returns a new sequence; an empty input gives an empty result, and
\* a single-element input gives a result that holds the words of that one
\* element, which is the element itself when it was given as those words.
C25_SingleReturnedAsWords ==
    /\ GivenUnmodified
    /\ ResultIsNew
    /\ EmptyGivesEmpty
    /\ (SortedDone /\ ret.ok /\ Len(arg.prices) = 1) =>
          /\ Len(ret.value) = 1
          /\ ret.value[1].type = "string"
          /\ ret.value[1] = asIsoPriceWords(arg.prices[1], NoOptions).value

\* 9 whole dollars given as a shape alone come back as the words USD 9 in a new
\* array, and the given array still holds the shape
C25_Witness ==
    /\ SortedDone
    /\ arg.prices = <<Shape(9, "USD", WHOLE)>>
    /\ held.heap[held.given] = <<Shape(9, "USD", WHOLE)>>
    /\ held.result = 3
    /\ ret = Ok(<<Str(<<"USD", " ", "9">>)>>)

-----------------------------------------------------------------------------
(* The operations on shapes whose scale is absent or is no member of       *)
(* IsoPriceExponent                                                         *)

\* shapes without a scale and with the default scale of their currency
ScalePool ==
    {Shape(v[1], v[2], v[3]) :
        v \in {w \in {-1250, 0, 7, 1000} \X {"USD", "JPY", "BHD"}
                       \X (IsoPriceExponent \cup {Undefined}) :
                 w[3] \in {Undefined, getIsoPriceExponentByCurrency(w[2])}}}

\* shapes with a scale token outside IsoPriceExponent
UnknownScalePool ==
    {Shape(a, c, e) : a \in {-1250, 0, 7, 1000}, c \in {"USD", "JPY"},
                      e \in {"deci.x10^-1", "centi"}}

ScaleCall(name, of, with, format, result) ==
    /\ Idle
    /\ op' = name
    /\ arg' = [of |-> of, with |-> with, format |-> format]
    /\ ret' = result
    /\ held' = <<>>

ScaleBy == Scalar(15, 1)

ScaleInto == Parts(3)

ScaleAsShape ==
    \E of \in ScalePool \cup UnknownScalePool :
       ScaleCall("asIsoPriceShape", of, of, "shape", asIsoPriceShape(of, NoOptions))

ScaleAsWords ==
    \E of \in ScalePool \cup UnknownScalePool :
       ScaleCall("asIsoPriceWords", of, of, "words", asIsoPriceWords(of, NoOptions))

ScaleSum ==
    \E of \in ScalePool \cup UnknownScalePool, with \in ScalePool, format \in Formats :
       ScaleCall("sumPrices", of, with, format, sumPrices(<<of, with>>, format))

ScaleSub ==
    \E of \in ScalePool \cup UnknownScalePool, with \in ScalePool, format \in Formats :
       ScaleCall("subPrices", of, with, format, subPrices(of, with, format))

ScaleMultiply ==
    \E of \in ScalePool, format \in Formats :
       ScaleCall("multiplyPrice", of, of, format,
                 multiplyPrice(of, ScaleBy, Undefined, format))

ScaleDivide ==
    \E of \in ScalePool, format \in Formats :
       ScaleCall("dividePrice", of, of, format,
                 dividePrice(of, 3, Undefined, format))

ScaleAllocate ==
    \E of \in ScalePool, format \in Formats :
       ScaleCall("allocatePrice", of, of, format,
                 allocatePrice(of, ScaleInto, "first", format))

ScaleAvg ==
    \E of \in ScalePool, with \in ScalePool, format \in Formats :
       ScaleCall("calcPriceAvg", of, with, format, calcPriceAvg(<<of, with>>, format))

ScaleStdev ==
    \E of \in ScalePool, with \in ScalePool, format \in Formats :
       ScaleCall("calcPriceStdev", of, with, format, calcPriceStdev(<<of, with>>, format))

ScaleEqual ==
    \E of \in ScalePool, with \in ScalePool :
       ScaleCall("isIsoPriceEqual", of, with, "shape", isIsoPriceEqual(of, with))

ScaleGreater ==
    \E of \in ScalePool, with \in ScalePool :
       ScaleCall("isIsoPriceGreater", of, with, "shape", isIsoPriceGreater(of, with))

ScaleLesser ==
    \E of \in ScalePool, with \in ScalePool :
       ScaleCall("isIsoPriceLesser", of, with, "shape", isIsoPriceLesser(of, with))

ScaleSorted ==
    \E of \in ScalePool, with \in ScalePool :
       ScaleCall("asIsoPriceSorted", of, with, "words",
                 asIsoPriceSorted(<<of, with>>, [order |-> Undefined]))

NextScale ==
    \/ ScaleAsShape \/ ScaleAsWords
    \/ ScaleSum \/ ScaleSub \/ ScaleMultiply \/ ScaleDivide \/ ScaleAllocate
    \/ ScaleAvg \/ ScaleStdev
    \/ ScaleEqual \/ ScaleGreater \/ ScaleLesser \/ ScaleSorted
    \/ Return

SpecScale == Init /\ [][NextScale]_vars

-----------------------------------------------------------------------------
(* Claims about scale tokens                                               *)

ScaleReturned == op # "none"

CarriesUnknownToken ==
    ScaleReturned /\ arg.of.exponent \notin IsoPriceExponent \cup {Undefined}

\* C26 as stated: every operation that is handed a shape whose scale token is
\* not one of the six members of IsoPriceExponent fails with InvalidScale and
\* computes no result.
C26_UnknownTokenFails == CarriesUnknownToken => ret = Err("InvalidScale")

\* the scale the claim names for a currency
ClaimedDefaultScale(currency) ==
    IF currency = "JPY" THEN WHOLE ELSE IF currency = "BHD" THEN MILLI ELSE CENTI

\* the shape with an absent scale written out
WithDefaultScale(price) ==
    IF price.exponent = Undefined
    THEN Shape(price.amount, price.currency, ClaimedDefaultScale(price.currency))
    ELSE price

\* the call of the current state, made with other prices
ScaleResult(of, with) ==
    CASE op = "asIsoPriceShape" -> asIsoPriceShape(of, NoOptions)
      [] op = "asIsoPriceWords" -> asIsoPriceWords(of, NoOptions)
      [] op = "sumPrices" -> sumPrices(<<of, with>>, arg.format)
      [] op = "subPrices" -> subPrices(of, with, arg.format)
      [] op = "multiplyPrice" -> multiplyPrice(of, ScaleBy, Undefined, arg.format)
      [] op = "dividePrice" -> dividePrice(of, 3, Undefined, arg.format)
      [] op = "allocatePrice" -> allocatePrice(of, ScaleInto, "first", arg.format)
      [] op = "calcPriceAvg" -> calcPriceAvg(<<of, with>>, arg.format)
      [] op = "calcPriceStdev" -> calcPriceStdev(<<of, with>>, arg.format)
      [] op = "isIsoPriceEqual" -> isIsoPriceEqual(of, with)
      [] op = "isIsoPriceGreater" -> isIsoPriceGreater(of, with)
      [] op = "isIsoPriceLesser" -> isIsoPriceLesser(of, with)
      [] op = "asIsoPriceSorted" -> asIsoPriceSorted(<<of, with>>, [order |-> Undefined])

AbsentScaleGiven ==
    ScaleReturned /\ (arg.of.exponent = Undefined \/ arg.with.exponent = Undefined)

-----------------------------------------------------------------------------
(* asIsoPriceShape on strings of every form                                *)

MaxBodyLen == 4

\* written characters after nothing, a currency code with or without its
\* space, or a currency symbol
AsIsoPriceShapeOfString ==
    /\ Idle
    /\ \E prefix \in {<<"USD", " ">>, <<"USD">>, <<"$">>, <<"U+20AC">>, <<>>},
          body \in SeqsUpTo({"1", "0", ".", ",", "_", "-", "a"}, MaxBodyLen) :
          /\ op' = "asIsoPriceShape"
          /\ arg' = Str(prefix \o body)
          /\ ret' = asIsoPriceShape(Str(prefix \o body), NoOptions)
          /\ held' = <<>>

NextFormat == AsIsoPriceShapeOfString \/ Return

SpecFormat == Init /\ [][NextFormat]_vars

-----------------------------------------------------------------------------
(* Claims about the strings asIsoPriceShape accepts                        *)

StringParsed == op = "asIsoPriceShape" /\ arg.type = "string"

\* digits in groups: digits with single separators between them
GroupedDigits(seg) ==
    /\ Len(seg) >= 1
    /\ IsDigit(seg[1]) /\ IsDigit(seg[Len(seg)])
    /\ \A i \in 1..Len(seg) : IsDigit(seg[i]) \/ seg[i] \in {",", "_"}
    /\ \A i \in 1..(Len(seg) - 1) : IsDigit(seg[i]) \/ IsDigit(seg[i + 1])

\* an optional minus, grouped digits and at most one fractional part
WrittenNumber(rest) ==
    LET unsigned == IF rest # <<>> /\ Head(rest) = "-" THEN Tail(rest) ELSE rest
        point == IndexOf(unsigned, ".")
    IN IF point = 0 THEN GroupedDigits(unsigned)
       ELSE /\ GroupedDigits(SubSeq(unsigned, 1, point - 1))
            /\ GroupedDigits(SubSeq(unsigned, point + 1, Len(unsigned)))

IsCodeForm(s) ==
    Len(s) >= 3 /\ s[1] \in CurrencyCodes /\ s[2] = " " /\ WrittenNumber(SubSeq(s, 3, Len(s)))

IsSymbolForm(s) ==
    /\ Len(s) >= 2
    /\ \E k \in 1..Len(SYMBOL_TO_CODE) : s[1] = SYMBOL_TO_CODE[k].symbol
    /\ WrittenNumber(Tail(s))

\* C27 as stated: parse returns a Price only for a string in code form or in
\* symbol form, and fails with InvalidFormat for every other string.
C27_OnlyWrittenFormsAccepted ==
    StringParsed =>
       IF IsCodeForm(arg.chars) \/ IsSymbolForm(arg.chars)
       THEN ret.ok \/ ret.error = "InvalidFormat"
       ELSE ret = Err("InvalidFormat")

-----------------------------------------------------------------------------
(* Claims about recipients with ratio 0                                    *)

\* C29 as stated: in an allocation by ratios a recipient whose ratio is 0
\* receives the amount 0, whatever the amount and the remainder mode.
C29_ZeroRatioGetsZero ==
    (AllocatedShapes /\ ~arg.into.hasParts) =>
       \A i \in 1..Len(arg.into.ratios) :
          arg.into.ratios[i] = 0 => ret.value[i].amount = 0

-----------------------------------------------------------------------------
(* bigintSqrt step by step                                                 *)

MaxVariance == 60

\* mutant: the loop goes on until the iterate stops changing
NewtonContinues_UntilEqual(x, y) == y # x

\* while (y < x)
NewtonContinues(x, y) == y < x

\* the guards and the initial guess
SqrtCalled ==
    /\ Idle
    /\ \E n \in -1..MaxVariance :
          /\ op' = "bigintSqrt"
          /\ arg' = [n |-> n]
          /\ IF n < 0
             THEN /\ ret' = Err("NegativeSqrt")
                  /\ held' = [pc |-> "done", x |-> n, y |-> n, iterations |-> 0]
             ELSE IF n \in {0, 1}
             THEN /\ ret' = Ok(n)
                  /\ held' = [pc |-> "done", x |-> n, y |-> n, iterations |-> 0]
             ELSE /\ ret' = <<>>
                  /\ held' = [pc |-> "loop", x |-> n, y |-> BigIntDiv(n + 1, 2),
                              iterations |-> 0]

\* one pass of the loop body: x = y; y = (x + n / x) / 2n
SqrtIterate ==
    /\ op = "bigintSqrt" /\ held.pc = "loop"
    /\ NewtonContinues(held.x, held.y)
    /\ held' = [held EXCEPT !.x = held.y,
                            !.y = BigIntDiv(held.y + BigIntDiv(arg.n, held.y), 2),
                            !.iterations = @ + 1]
    /\ UNCHANGED <<op, arg, ret>>

\* the loop exit and return x
SqrtExit ==
    /\ op = "bigintSqrt" /\ held.pc = "loop"
    /\ ~NewtonContinues(held.x, held.y)
    /\ ret' = Ok(held.x)
    /\ held' = [held EXCEPT !.pc = "done"]
    /\ UNCHANGED <<op, arg>>

SqrtReturn ==
    /\ op = "bigintSqrt" /\ held.pc = "done"
    /\ Return

NextSqrt == SqrtCalled \/ SqrtIterate \/ SqrtExit \/ SqrtReturn

SpecSqrt == Init /\ [][NextSqrt]_vars

\* a call that has started keeps running: the loop body and the exit are the
\* next statements of a single sequential function
FairSpecSqrt == SpecSqrt /\ WF_vars(SqrtIterate) /\ WF_vars(SqrtExit)

-----------------------------------------------------------------------------
(* Claims about the termination of bigintSqrt                              *)

SqrtRunning == op = "bigintSqrt" /\ arg.n >= 0 /\ held.pc = "loop"

SqrtFinished == op = "bigintSqrt" /\ held.pc = "done"

\* C30: for every non-negative variance the iteration that starts at the
\* variance ends; every pass of the loop makes the iterate strictly smaller and
\* keeps it positive, and the number of passes is at most the variance.
C30_SqrtTerminates ==
    /\ SqrtRunning ~> SqrtFinished
    /\ [][(SqrtRunning /\ held'.iterations = held.iterations + 1) =>
             (held'.x < held.x /\ held'.x >= 1)]_vars
    /\ [](op = "bigintSqrt" /\ arg.n >= 0 => held.iterations <= arg.n /\ held.x <= arg.n)

\* the root of 60 is found as 7 after the iterates 60, 30, 16, 9, 7
C30_Witness ==
    /\ SqrtFinished
    /\ arg.n = 60
    /\ held.iterations = 4
    /\ ret = Ok(7)

====
